---- MODULE Spec2Model ----
(***************************************************************************)
(* Synchronization & Analytics Engine of the inventory backend.            *)
(*                                                                         *)
(* The external platform (Shopify) holds products and orders.  A sync call *)
(* pages through a listing, accumulates every page, then normalises and    *)
(* upserts each record into the Product / Order collections; after each    *)
(* product upsert it upserts one InventoryAnalytics document per variant.  *)
(* Every `await` of the JavaScript code is a step of its own, so two calls *)
(* running on the same event loop interleave at those points.              *)
(***************************************************************************)
EXTENDS Integers, Sequences, FiniteSets, TLC

(***************************************************************************)
(* Bounds of the model.                                                    *)
(***************************************************************************)
MaxProducts == 2        \* products on the small platform
MaxRuns == 2            \* sync calls started in one behaviour
MaxTime == 1            \* clock ticks in one behaviour
MaxPages == 2           \* full pages held by the large platform
BatchSize == 50         \* a one-page batch, as in the failure-isolation scenario
MaxObservations == 4    \* entries of a stored historicalQuantities list
MaxPredictions == 2     \* predictions in one response

(***************************************************************************)
(* Program constants.                                                      *)
(***************************************************************************)
PageSize == 250         \* params.limit, and the literal of the hasNextPage test
LowStockLiteral == 5    \* the literal of the stockStatus ternary
DefaultThreshold == 5   \* $setOnInsert lowStockThreshold

Procs == {1, 2}
Kinds == {"products", "orders"}

VARIABLES
  platform,     \* the external dataset: [products: Seq, orders: Seq], ascending id
  products,     \* Product collection, in insertion order
  orders,       \* Order collection, in insertion order
  analytics,    \* InventoryAnalytics collection, in insertion order
  now,          \* the clock read by new Date()
  runs,         \* sync calls started so far
  sync,         \* per call slot: the locals of syncProducts / syncOrders
  bridge,       \* per AIService method: what its last call gave its caller
  saved,        \* the last _savePredictions call: its argument and the collection it met
  report,       \* per dashboard handler: what its last call answered
  request,      \* per AIService call site: the state of its HTTP request
  service       \* the analytics service: the locals and results of its calls

vars == <<platform, products, orders, analytics, now, runs, sync, bridge, saved, report,
          request, service>>

Min(a, b) == IF a <= b THEN a ELSE b

\* Index of the first document of a collection that matches, 0 when none does
\* (findOne / findOneAndUpdate act on the first match in natural order).
FirstMatch(coll, Test(_)) ==
  LET S == {k \in 1..Len(coll) : Test(coll[k])}
  IN  IF S = {} THEN 0 ELSE CHOOSE k \in S : \A j \in S : k <= j

(***************************************************************************)
(* The external platform.                                                  *)
(***************************************************************************)
\* One platform variant of product pid: ids are unique across the platform.
ShopifyVariant(pid, k, q) ==
  [id |-> 10 * pid + k, title |-> "v", sku |-> "sku", inventory_quantity |-> q]

\* A platform product; a malformed one lacks its tags string.
ShopifyProduct(pid, wellFormed, variants) ==
  IF wellFormed
  THEN [id |-> pid, title |-> "p", vendor |-> "acme", tags |-> "t", variants |-> variants]
  ELSE [id |-> pid, title |-> "p", vendor |-> "acme", variants |-> variants]

\* A platform order; a malformed one lacks its line_items list.
ShopifyOrder(oid, wellFormed) ==
  IF wellFormed
  THEN [id |-> oid, name |-> "#", line_items |-> <<>>]
  ELSE [id |-> oid, name |-> "#"]

\* shopify.product.list / shopify.order.list: the records after since_id, in
\* ascending id order, at most `limit` of them.
ListPage(listing, params) ==
  LET after == IF "since_id" \in DOMAIN params
               THEN SelectSeq(listing, LAMBDA r : r.id > params.since_id)
               ELSE listing
  IN  SubSeq(after, 1, Min(params.limit, Len(after)))

(***************************************************************************)
(* Normalisation of a platform record into the domain shape.               *)
(***************************************************************************)
\* tags.split(',') and line_items.map(...) throw a TypeError on a record
\* that lacks the field.
NormalizeThrows(kind, r) ==
  IF kind = "products" THEN "tags" \notin DOMAIN r ELSE "line_items" \notin DOMAIN r

NormalizeVariant(v) ==
  [shopifyVariantId |-> ToString(v.id), title |-> v.title, sku |-> v.sku,
   inventoryQuantity |-> v.inventory_quantity]

\* The product object; vendor: shopifyProduct.vendor is undefined (no field
\* in the model) when the platform record has none.
NormalizeProduct(r, date) ==
  LET product ==
        [shopifyId |-> ToString(r.id), title |-> r.title, tags |-> <<r.tags>>,
         variants |-> [k \in 1..Len(r.variants) |-> NormalizeVariant(r.variants[k])],
         lastUpdated |-> date]
  IN  IF "vendor" \in DOMAIN r
      THEN [f \in DOMAIN product \cup {"vendor"} |->
              IF f = "vendor" THEN r.vendor ELSE product[f]]
      ELSE product

NormalizeOrder(r, date) ==
  [shopifyId |-> ToString(r.id), orderNumber |-> r.name,
   lineItems |-> r.line_items, lastUpdated |-> date]

(***************************************************************************)
(* The repository.                                                         *)
(***************************************************************************)
\* Model.findOneAndUpdate({shopifyId}, doc, {new: true, upsert: true}) on a
\* collection with a unique index on shopifyId: the fields of doc are $set
\* on the matching document, or a new document is inserted.
SetFields(old, new) ==
  [f \in DOMAIN old \cup DOMAIN new |-> IF f \in DOMAIN new THEN new[f] ELSE old[f]]

\* The update document mongoose sends for a plain object: its keys under
\* $set.  A key whose value is undefined is left out of the update or sent as
\* null, depending on the mongoose version.
UndefinedKeys == {"omitted", "null"}
CastUpdate(doc, undefinedAs) ==
  IF "shopifyId" \in DOMAIN doc /\ "variants" \in DOMAIN doc
     /\ "vendor" \notin DOMAIN doc /\ undefinedAs = "null"
  THEN [f \in DOMAIN doc \cup {"vendor"} |-> IF f = "vendor" THEN "null" ELSE doc[f]]
  ELSE doc

\* UpsertByShopifyId that inserts without looking for a match.
UpsertAlwaysInserts(coll, doc) == Append(coll, SetFields([_id |-> Len(coll) + 1], doc))

UpsertByShopifyId(coll, doc) ==
  LET k == FirstMatch(coll, LAMBDA d : d.shopifyId = doc.shopifyId)
  IN  IF k > 0
      THEN [coll EXCEPT ![k] = SetFields(coll[k], doc)]
      ELSE Append(coll, SetFields([_id |-> Len(coll) + 1], doc))

SavedDoc(coll, shopifyId) ==
  coll[FirstMatch(coll, LAMBDA d : d.shopifyId = shopifyId)]

\* StockStatus with the low-stock bound excluded (q < 5).
StockStatusExclusive(q) ==
  IF q <= 0 THEN "Out of Stock"
  ELSE IF q < LowStockLiteral THEN "Low Stock" ELSE "In Stock"

\* The stockStatus ternary of updateInventoryAnalytics.
StockStatus(q) ==
  IF q <= 0 THEN "Out of Stock"
  ELSE IF q <= LowStockLiteral THEN "Low Stock" ELSE "In Stock"

AnalyticsMatch(a, product, variant) ==
  /\ a.shopifyProductId = product.shopifyId
  /\ a.variantId = variant.shopifyVariantId

\* PushAndSet that drops an observation equal to the newest stored one.
PushAndSetDeduplicated(a, variant, date) ==
  LET h == a.historicalQuantities
      obs == [date |-> date, quantity |-> variant.inventoryQuantity]
  IN  [a EXCEPT !.historicalQuantities =
                    IF Len(h) > 0 /\ h[Len(h)] = obs THEN h ELSE Append(h, obs),
                !.stockStatus = StockStatus(variant.inventoryQuantity),
                !.lastUpdated = date]

\* PushAndSet that appends the observation and leaves the status to a later write.
PushOnly(a, variant, date) ==
  [a EXCEPT !.historicalQuantities =
                Append(@, [date |-> date, quantity |-> variant.inventoryQuantity]),
            !.lastUpdated = date]

\* PushAndSet that writes a whole fresh document over the stored one.
PushAndSetReplacing(a, variant, date) ==
  [shopifyProductId |-> a.shopifyProductId, variantId |-> a.variantId,
   productId |-> a.productId, title |-> a.title, sku |-> variant.sku,
   lowStockThreshold |-> DefaultThreshold,
   historicalQuantities |->
     Append(a.historicalQuantities, [date |-> date, quantity |-> variant.inventoryQuantity]),
   stockStatus |-> StockStatus(variant.inventoryQuantity),
   lastUpdated |-> date]

\* $push historicalQuantities and $set stockStatus, lastUpdated on one document.
PushAndSet(a, variant, date) ==
  [a EXCEPT !.historicalQuantities =
                Append(@, [date |-> date, quantity |-> variant.inventoryQuantity]),
            !.stockStatus = StockStatus(variant.inventoryQuantity),
            !.lastUpdated = date]

\* The document an upsert inserts: the query's equality fields, $setOnInsert,
\* then $push and $set applied to it.
NewAnalytics(product, variant, date) ==
  PushAndSet([shopifyProductId |-> product.shopifyId,
              variantId |-> variant.shopifyVariantId,
              productId |-> product._id,
              title |-> product.title,
              sku |-> variant.sku,
              lowStockThreshold |-> DefaultThreshold,
              historicalQuantities |-> <<>>,
              stockStatus |-> "In Stock",
              lastUpdated |-> date],
             variant, date)

(***************************************************************************)
(* One sync call: syncProducts / syncOrders.                               *)
(***************************************************************************)
Idle ==
  [pc |-> "idle", kind |-> "products", params |-> [limit |-> PageSize],
   all |-> <<>>, hasNextPage |-> FALSE, i |-> 0, v |-> 0,
   savedProduct |-> [variants |-> <<>>], saved |-> 0, requests |-> 0,
   error |-> "none", last |-> "none", lastKind |-> "none",
   before |-> [products |-> <<>>, analytics |-> <<>>, orders |-> <<>>]]

Listing(kind) == IF kind = "products" THEN platform.products ELSE platform.orders

Ended(s) == s.pc \in {"idle", "done", "failed"}

\* A call is invoked: the locals before the while loop.
StartSync(p) ==
  /\ Ended(sync[p])
  /\ runs < MaxRuns
  /\ \E k \in Kinds :
       sync' = [sync EXCEPT ![p] =
                  [Idle EXCEPT !.pc = "fetch", !.kind = k, !.hasNextPage = TRUE,
                               !.last = sync[p].pc, !.lastKind = sync[p].kind,
                               !.before = [products |-> products,
                                           analytics |-> analytics,
                                           orders |-> orders]]]
  /\ runs' = runs + 1
  /\ UNCHANGED <<platform, products, orders, analytics, now, bridge, saved, report, request, service>>

\* HasNextPage that goes on until an empty page.
HasNextPageUntilEmpty(page) == Len(page) > 0

\* hasNextPage = page.length === 250
HasNextPage(page) == Len(page) = PageSize

\* The for loop moves to record n, or the call returns.
AtRecord(s, n) ==
  IF n > Len(s.all)
  THEN [s EXCEPT !.pc = "done", !.i = n, !.v = 0]
  ELSE [s EXCEPT !.pc = "save", !.i = n, !.v = 0]

\* AfterPage that takes the cursor from the first record of the page.
AfterPageCursorAtFirst(s, page) ==
  LET more == HasNextPage(page)
      s1 == [s EXCEPT !.all = s.all \o page,
                      !.hasNextPage = more,
                      !.requests = s.requests + 1,
                      !.params = IF more /\ Len(page) > 0
                                 THEN [limit |-> PageSize, since_id |-> page[1].id]
                                 ELSE s.params]
  IN  IF more THEN s1 ELSE AtRecord(s1, 1)

\* The locals after one page is returned.
AfterPage(s, page) ==
  LET more == HasNextPage(page)
      s1 == [s EXCEPT !.all = s.all \o page,
                      !.hasNextPage = more,
                      !.requests = s.requests + 1,
                      !.params = IF more /\ Len(page) > 0
                                 THEN [limit |-> PageSize, since_id |-> page[Len(page)].id]
                                 ELSE s.params]
  IN  IF more THEN s1 ELSE AtRecord(s1, 1)

\* AfterPageError that keeps the pages fetched so far and goes on to save them.
AfterPageErrorKeepsPages(s) ==
  AtRecord([s EXCEPT !.error = "fetch", !.hasNextPage = FALSE,
                     !.requests = s.requests + 1], 1)

\* The locals after a page request throws: the catch block ends the call.
AfterPageError(s) ==
  [s EXCEPT !.pc = "failed", !.error = "fetch", !.requests = s.requests + 1]

\* One turn of the while loop: await shopify.<kind>.list(params).
FetchPage(p) ==
  /\ sync[p].pc = "fetch"
  /\ sync' = [sync EXCEPT ![p] =
                AfterPage(sync[p], ListPage(Listing(sync[p].kind), sync[p].params))]
  /\ UNCHANGED <<platform, products, orders, analytics, now, runs, bridge, saved, report, request, service>>

FetchPageFails(p) ==
  /\ sync[p].pc = "fetch"
  /\ sync' = [sync EXCEPT ![p] = AfterPageError(sync[p])]
  /\ UNCHANGED <<platform, products, orders, analytics, now, runs, bridge, saved, report, request, service>>

\* The locals after an exception inside the for loop: no try/catch surrounds
\* one record, so the function's catch block ends the call.
AfterRecordError(s, what) == [s EXCEPT !.pc = "failed", !.error = what]

\* Converting record i throws.
RecordFails(p) ==
  /\ sync[p].pc = "save"
  /\ NormalizeThrows(sync[p].kind, sync[p].all[sync[p].i])
  /\ sync' = [sync EXCEPT ![p] = AfterRecordError(sync[p], "record")]
  /\ UNCHANGED <<platform, products, orders, analytics, now, runs, bridge, saved, report, request, service>>

\* WriteFails that undoes what the call has written.
WriteFailsRollsBack(p) ==
  /\ sync[p].pc \in {"save", "analytics", "insert"}
  /\ sync[p].pc = "save" => ~NormalizeThrows(sync[p].kind, sync[p].all[sync[p].i])
  /\ sync' = [sync EXCEPT ![p] = AfterRecordError(sync[p], "storage")]
  /\ products' = sync[p].before.products
  /\ orders' = sync[p].before.orders
  /\ analytics' = sync[p].before.analytics
  /\ UNCHANGED <<platform, now, runs, bridge, saved, report, request, service>>

\* A repository write rejects.
WriteFails(p) ==
  /\ sync[p].pc \in {"save", "analytics", "insert"}
  /\ sync[p].pc = "save" => ~NormalizeThrows(sync[p].kind, sync[p].all[sync[p].i])
  /\ sync' = [sync EXCEPT ![p] = AfterRecordError(sync[p], "storage")]
  /\ UNCHANGED <<platform, products, orders, analytics, now, runs, bridge, saved, report, request, service>>

\* savedProducts.push(savedProduct), then the next record.
PushSaved(s) == AtRecord([s EXCEPT !.saved = s.saved + 1], s.i + 1)

\* The inner loop moves to the next variant, or the product is done.
NextVariant(s) ==
  IF s.v + 1 > Len(s.savedProduct.variants)
  THEN PushSaved(s)
  ELSE [s EXCEPT !.pc = "analytics", !.v = s.v + 1]

\* await Product.findOneAndUpdate(...) for record i.
UpsertProduct(p) ==
  LET s == sync[p]
  IN  /\ s.pc = "save"
      /\ s.kind = "products"
      /\ ~NormalizeThrows(s.kind, s.all[s.i])
      /\ \E undefinedAs \in UndefinedKeys :
           LET product == NormalizeProduct(s.all[s.i], now)
               coll == UpsertByShopifyId(products, CastUpdate(product, undefinedAs))
               s1 == [s EXCEPT !.savedProduct = SavedDoc(coll, product.shopifyId)]
           IN  /\ products' = coll
               /\ sync' = [sync EXCEPT ![p] = NextVariant(s1)]
      /\ UNCHANGED <<platform, orders, analytics, now, runs, bridge, saved, report, request, service>>

\* UpsertOrder that also stamps the products of the order.
UpsertOrderStampsProducts(p) ==
  LET s == sync[p]
  IN  /\ s.pc = "save"
      /\ s.kind = "orders"
      /\ ~NormalizeThrows(s.kind, s.all[s.i])
      /\ orders' = UpsertByShopifyId(orders, NormalizeOrder(s.all[s.i], now))
      /\ products' = [k \in 1..Len(products) |-> SetFields(products[k], [ordered |-> TRUE])]
      /\ sync' = [sync EXCEPT ![p] = PushSaved(s)]
      /\ UNCHANGED <<platform, analytics, now, runs, bridge, saved, report, request, service>>

\* await Order.findOneAndUpdate(...) for record i.
UpsertOrder(p) ==
  LET s == sync[p]
  IN  /\ s.pc = "save"
      /\ s.kind = "orders"
      /\ ~NormalizeThrows(s.kind, s.all[s.i])
      /\ orders' = UpsertByShopifyId(orders, NormalizeOrder(s.all[s.i], now))
      /\ sync' = [sync EXCEPT ![p] = PushSaved(s)]
      /\ UNCHANGED <<platform, products, analytics, now, runs, bridge, saved, report, request, service>>

\* await InventoryAnalytics.findOneAndUpdate(..., {upsert: true}) for variant
\* v of the saved product.  A matching document is updated in one step.  When
\* none matches the server inserts one; the collection has no unique index on
\* (shopifyProductId, variantId), so the match and the insert of two
\* concurrent upserts are not serialised against each other.
updateInventoryAnalytics(p) ==
  LET s == sync[p]
      variant == s.savedProduct.variants[s.v]
      k == FirstMatch(analytics, LAMBDA a : AnalyticsMatch(a, s.savedProduct, variant))
  IN  /\ s.pc = "analytics"
      /\ IF k > 0
         THEN /\ analytics' = [analytics EXCEPT ![k] = PushAndSet(@, variant, now)]
              /\ sync' = [sync EXCEPT ![p] = NextVariant(s)]
         ELSE /\ analytics' = analytics
              /\ sync' = [sync EXCEPT ![p].pc = "insert"]
      /\ UNCHANGED <<platform, products, orders, now, runs, bridge, saved, report, request, service>>

InsertAnalytics(p) ==
  LET s == sync[p]
      variant == s.savedProduct.variants[s.v]
  IN  /\ s.pc = "insert"
      /\ analytics' = Append(analytics, NewAnalytics(s.savedProduct, variant, now))
      /\ sync' = [sync EXCEPT ![p] = NextVariant(s)]
      /\ UNCHANGED <<platform, products, orders, now, runs, bridge, saved, report, request, service>>

\* One step of a call that has started.
SyncProgress(p) ==
  \/ FetchPage(p)
  \/ FetchPageFails(p)
  \/ RecordFails(p)
  \/ WriteFails(p)
  \/ UpsertProduct(p)
  \/ UpsertOrder(p)
  \/ updateInventoryAnalytics(p)
  \/ InsertAnalytics(p)

SyncStep(p) ==
  \/ StartSync(p)
  \/ SyncProgress(p)

\* syncAllData: Promise.all([syncProductsHelper(), syncOrdersHelper()]) starts
\* the product sync and the order sync together.
SyncAllData ==
  /\ \A p \in Procs : Ended(sync[p])
  /\ runs < MaxRuns
  /\ LET Started(p, k) ==
           [Idle EXCEPT !.pc = "fetch", !.kind = k, !.hasNextPage = TRUE,
                        !.last = sync[p].pc, !.lastKind = sync[p].kind,
                        !.before = [products |-> products,
                                    analytics |-> analytics,
                                    orders |-> orders]]
     IN  sync' = [p \in Procs |-> Started(p, IF p = 1 THEN "products" ELSE "orders")]
  /\ runs' = runs + 1
  /\ UNCHANGED <<platform, products, orders, analytics, now, bridge, saved, report, request, service>>

Tick ==
  /\ now < MaxTime
  /\ now' = now + 1
  /\ UNCHANGED <<platform, products, orders, analytics, runs, sync, bridge, saved, report, request, service>>

\* The merchant edits a product on the platform between two listings: its
\* vendor is cleared, or its last variant is removed.
EditProduct ==
  \E i \in 1..Len(platform.products) :
    /\ \A p \in Procs : Ended(sync[p])
    /\ \/ /\ "vendor" \in DOMAIN platform.products[i]
          /\ platform' = [platform EXCEPT !.products[i] =
                            [f \in DOMAIN @ \ {"vendor"} |-> @[f]]]
       \/ /\ Len(platform.products[i].variants) > 1
          /\ platform' = [platform EXCEPT !.products[i].variants =
                            SubSeq(@, 1, Len(@) - 1)]
    /\ UNCHANGED <<products, orders, analytics, now, runs, sync, bridge, saved, report, request, service>>

\* Stock moves on the platform: the on-hand quantity of the first variant of
\* the first product becomes 0 or 6.
EditQuantity ==
  /\ Len(platform.products) > 0
  /\ \E q \in {0, 6} :
       /\ platform.products[1].variants[1].inventory_quantity # q
       /\ platform' = [platform EXCEPT !.products[1].variants[1].inventory_quantity = q]
  /\ UNCHANGED <<products, orders, analytics, now, runs, sync, bridge, saved, report, request, service>>

(***************************************************************************)
(* Sales velocity: calculateBasicSalesVelocity.                            *)
(* Dates are in hours; rates are exact fractions [n, d] in lowest terms    *)
(* with d > 0 (the code computes them in floating point).                  *)
(***************************************************************************)
HoursPerDay == 24       \* 1000 * 60 * 60 * 24 ms, in the model's date unit

Abs(x) == IF x < 0 THEN -x ELSE x

RECURSIVE GCD(_, _)
GCD(a, b) == IF b = 0 THEN a ELSE GCD(b, a % b)

\* The fraction n / d, d # 0.
Fraction(n, d) ==
  LET g == GCD(Abs(n), Abs(d))
      sign == IF d < 0 THEN -1 ELSE 1
  IN  [n |-> sign * (n \div g), d |-> sign * (d \div g)]

Times(r, k) == Fraction(r.n * k, r.d)

\* SortNewestFirst that leaves the list in storage order.
SortNewestFirstOmitted(h) == h

\* [...historicalQuantities].sort((a, b) => new Date(b.date) - new Date(a.date)):
\* a stable sort, newest first.
RECURSIVE SortNewestFirst(_)
SortNewestFirst(h) ==
  IF Len(h) = 0 THEN <<>>
  ELSE LET sorted == SortNewestFirst(SubSeq(h, 1, Len(h) - 1))
           x == h[Len(h)]
           k == Cardinality({j \in 1..Len(sorted) : sorted[j].date >= x.date})
       IN  SubSeq(sorted, 1, k) \o <<x>> \o SubSeq(sorted, k + 1, Len(sorted))

\* Accumulate that counts every pair, increases included.
AccumulateEveryPair(acc, current, previous) ==
  [totalDecrease |-> acc.totalDecrease + (previous.quantity - current.quantity),
   totalHours |-> acc.totalHours + (current.date - previous.date)]

\* The body of the for loop: one consecutive pair of readings.
Accumulate(acc, current, previous) ==
  LET decrease == previous.quantity - current.quantity
  IN  IF decrease > 0
      THEN [totalDecrease |-> acc.totalDecrease + decrease,
            totalHours |-> acc.totalHours + (current.date - previous.date)]
      ELSE acc

\* for (let i = 0; i < sortedQuantities.length - 1; i++)
RECURSIVE WalkPairs(_, _, _)
WalkPairs(sorted, i, acc) ==
  IF i >= Len(sorted) THEN acc
  ELSE WalkPairs(sorted, i + 1, Accumulate(acc, sorted[i], sorted[i + 1]))

calculateBasicSalesVelocity(analyticsItem, date) ==
  LET historicalQuantities ==
        IF "historicalQuantities" \in DOMAIN analyticsItem
        THEN analyticsItem.historicalQuantities ELSE <<>>
      zero == Fraction(0, 1)
  IN  IF Len(historicalQuantities) < 2
      THEN [daily |-> zero, weekly |-> zero, monthly |-> zero, lastUpdated |-> date]
      ELSE LET acc == WalkPairs(SortNewestFirst(historicalQuantities), 1,
                                [totalDecrease |-> 0, totalHours |-> 0])
               \* totalDays = totalHours / HoursPerDay
               dailyVelocity == IF acc.totalHours > 0
                                THEN Fraction(acc.totalDecrease * HoursPerDay, acc.totalHours)
                                ELSE zero
           IN  [daily |-> dailyVelocity,
                weekly |-> Times(dailyVelocity, 7),
                monthly |-> Times(dailyVelocity, 30),
                lastUpdated |-> date]

\* The analytics service's refresh, for one document: item.salesVelocity =
\* calculateBasicSalesVelocity(item); item.save().
SaveSalesVelocity(k) ==
  /\ k \in 1..Len(analytics)
  /\ "salesVelocity" \notin DOMAIN analytics[k]
  /\ analytics' = [analytics EXCEPT ![k] =
       SetFields(@, [salesVelocity |-> calculateBasicSalesVelocity(@, now)])]
  /\ UNCHANGED <<platform, products, orders, now, runs, sync, bridge, saved, report, request, service>>

(***************************************************************************)
(* The analytics service's updateInventoryAnalytics: it reads every        *)
(* document, then recomputes and saves them one after the other.           *)
(***************************************************************************)
NoUpdate == [pc |-> "idle", items |-> <<>>, i |-> 0, updated |-> 0,
             success |-> FALSE, lastUpdated |-> 0]
NoSave == [called |-> FALSE, recommendations |-> <<>>, before |-> <<>>,
           success |-> FALSE, updated |-> 0]
NoService == [update |-> NoUpdate, save |-> NoSave]

\* item.save() that writes the whole document as it was read.
SaveWholeDocument(stored, item, salesVelocity) ==
  SetFields(item, [salesVelocity |-> salesVelocity])

\* item.save(): the modified path, salesVelocity, is set on the stored document.
SaveModified(stored, item, salesVelocity) ==
  SetFields(stored, [salesVelocity |-> salesVelocity])

\* const analytics = await InventoryAnalytics.find(); let updated = 0
StartUpdate ==
  /\ service.update.pc \in {"idle", "done", "failed"}
  /\ service' = [service EXCEPT !.update =
                   [NoUpdate EXCEPT !.pc = "saving", !.items = analytics, !.i = 1]]
  /\ UNCHANGED <<platform, products, orders, analytics, now, runs, sync, bridge, saved,
                 report, request>>

\* UpdateItem that counts a document only when its velocity is not zero.
UpdateItemCountsSales ==
  LET u == service.update
      salesVelocity == calculateBasicSalesVelocity(u.items[u.i], now)
  IN  /\ u.pc = "saving"
      /\ u.i <= Len(u.items)
      /\ analytics' = [analytics EXCEPT ![u.i] = SaveModified(@, u.items[u.i], salesVelocity)]
      /\ service' = [service EXCEPT !.update.i = u.i + 1,
                                    !.update.updated =
                                       IF salesVelocity.daily.n = 0 THEN u.updated
                                       ELSE u.updated + 1,
                                    !.update.lastUpdated = now]
      /\ UNCHANGED <<platform, products, orders, now, runs, sync, bridge, saved,
                     report, request>>

\* One turn of the loop: the velocity of the document as read, saved.
UpdateItem ==
  LET u == service.update
  IN  /\ u.pc = "saving"
      /\ u.i <= Len(u.items)
      /\ analytics' = [analytics EXCEPT ![u.i] =
            SaveModified(@, u.items[u.i], calculateBasicSalesVelocity(u.items[u.i], now))]
      /\ service' = [service EXCEPT !.update.i = u.i + 1,
                                    !.update.updated = u.updated + 1,
                                    !.update.lastUpdated = now]
      /\ UNCHANGED <<platform, products, orders, now, runs, sync, bridge, saved,
                     report, request>>

\* return { success: true, updated }
UpdateReturns ==
  LET u == service.update
  IN  /\ u.pc = "saving"
      /\ u.i > Len(u.items)
      /\ service' = [service EXCEPT !.update.pc = "done", !.update.success = TRUE]
      /\ UNCHANGED <<platform, products, orders, analytics, now, runs, sync, bridge,
                     saved, report, request>>

\* The catch block: find() or a save() rejected; { success: false, error }.
UpdateFails ==
  /\ \/ service.update.pc \in {"idle", "done", "failed"}
     \/ service.update.pc = "saving" /\ service.update.i <= Len(service.update.items)
  /\ service' = [service EXCEPT !.update.pc = "failed", !.update.success = FALSE]
  /\ UNCHANGED <<platform, products, orders, analytics, now, runs, sync, bridge,
                 saved, report, request>>

updateAnalytics == StartUpdate \/ UpdateItem \/ UpdateReturns \/ UpdateFails

(***************************************************************************)
(* The analytics service's saveAIRecommendations.                          *)
(***************************************************************************)
DefaultConfidence == Fraction(7, 10)    \* rec.recommendation.confidence || 0.7

\* rec.productId && rec.variantId && rec.recommendation
Complete(rec) == {"productId", "variantId", "recommendation"} \subseteq DOMAIN rec

\* findOneAndUpdate({shopifyProductId, variantId}, {$set: {restockRecommendations}}):
\* the index of the document it updates, 0 if none matches.
RecommendationMatch(anas, rec) ==
  FirstMatch(anas, LAMBDA a : a.shopifyProductId = rec.productId
                                /\ a.variantId = rec.variantId)

StoredRecommendation(rec, date) ==
  [recommendedQuantity |-> rec.recommendation.quantity,
   recommendedDate |-> date,
   confidence |-> DefaultConfidence,
   reasoning |-> "AI-generated recommendation",
   lastUpdated |-> date]

\* The loop from recommendation i on.  The inner `const updated` shadows the
\* counter, so `updated++` after a match assigns to a constant: a TypeError
\* that the catch block turns into { success: false }; the counter the
\* function returns is never incremented.
RECURSIVE saveAIRecommendations(_, _, _, _)
saveAIRecommendations(anas, recommendations, i, date) ==
  IF i > Len(recommendations)
  THEN [analytics |-> anas, success |-> TRUE, updated |-> 0]
  ELSE LET rec == recommendations[i]
           k == RecommendationMatch(anas, rec)
       IN  IF Complete(rec) /\ k > 0
           THEN [analytics |->
                   [anas EXCEPT ![k] =
                      SetFields(@, [restockRecommendations |-> StoredRecommendation(rec, date)])],
                 success |-> FALSE, updated |-> 0]
           ELSE saveAIRecommendations(anas, recommendations, i + 1, date)

\* What a caller can pass for the product pid: a recommendation, or an entry
\* without one.
Recommendations(pids) ==
  {[productId |-> ToString(pid), variantId |-> ToString(10 * pid + 1),
    recommendation |-> [quantity |-> 10]] : pid \in pids}
    \cup {[productId |-> ToString(pid), variantId |-> ToString(10 * pid + 1)] : pid \in pids}

SaveAIRecommendations ==
  \E len \in 1..MaxPredictions :
    \E recommendations \in [1..len -> Recommendations(0..MaxProducts)] :
      LET call == saveAIRecommendations(analytics, recommendations, 1, now)
      IN  /\ analytics' = call.analytics
          /\ service' = [service EXCEPT !.save =
                           [called |-> TRUE, recommendations |-> recommendations,
                            before |-> analytics, success |-> call.success,
                            updated |-> call.updated]]
          /\ UNCHANGED <<platform, products, orders, now, runs, sync, bridge, saved,
                         report, request>>

(***************************************************************************)
(* The recommendation bridge: AIService.                                   *)
(***************************************************************************)
Methods == {"getRestockRecommendations", "runInventorySimulations"}

\* What a call gave its caller: a returned value or a raised error, the
\* failure met on the way ("none" if none), and the requests it posted.
Returned(result, failure, requests) ==
  [outcome |-> "returned", result |-> result, failure |-> failure, requests |-> requests]
Raised(failure, requests) ==
  [outcome |-> "raised", result |-> <<>>, failure |-> failure, requests |-> requests]
NotCalled == [outcome |-> "none", result |-> <<>>, failure |-> "none", requests |-> 0]
NoCalls == [m \in Methods |-> NotCalled]

\* Outcomes of axios.post: the promise rejects (no connection, or the
\* socket times out), or resolves with a body that lacks the expected field,
\* or with one that has it.
\* What the prediction service can say of a variant: with an average daily
\* sales figure or without one.
Predictions(variantIds) ==
  {[productId |-> id, recommendedOrderQuantity |-> 10, avgDailySales |-> 2] : id \in variantIds}
    \cup {[productId |-> id, recommendedOrderQuantity |-> 10] : id \in variantIds}

Response(status, data) == [status |-> status, data |-> data]
Responses(variantIds) ==
  {Response("network", <<>>), Response("timeout", <<>>), Response("malformed", <<>>),
   Response("ok", <<>>)}
    \cup {Response("ok", <<p>>) : p \in Predictions(variantIds)}

LastMatch(coll, Test(_)) ==
  LET S == {k \in 1..Len(coll) : Test(coll[k])}
  IN  IF S = {} THEN 0 ELSE CHOOSE k \in S : \A j \in S : k >= j

\* One product's entries of the prepared list: its variants that have an
\* analytics document (analyticsMap keeps the last document of a variantId).
PreparedItems(product, anas) ==
  LET Found(v) == LastMatch(anas, LAMBDA a : a.variantId = ToString(v.id))
      matched == SelectSeq(product.variants, LAMBDA v : Found(v) > 0)
  IN  [j \in 1..Len(matched) |->
         LET v == matched[j]
             a == anas[Found(v)]
         IN  [id |-> ToString(v.id),
              productId |-> product._id,
              sku |-> v.sku,
              quantity |-> v.inventoryQuantity,
              salesVelocity |-> IF "salesVelocity" \in DOMAIN a
                                THEN a.salesVelocity.daily ELSE Fraction(0, 1)]]

RECURSIVE PreparedFrom(_, _, _)
PreparedFrom(prods, anas, i) ==
  IF i > Len(prods) THEN <<>>
  ELSE PreparedItems(prods[i], anas) \o PreparedFrom(prods, anas, i + 1)

\* _prepareInventoryData: the list it returns and the failure it swallowed.
\* variant.id.toString() throws on a stored variant, which has no id field.
prepareInventoryData(prods, anas, readFails) ==
  IF readFails THEN [items |-> <<>>, failure |-> "read"]
  ELSE IF Len(prods) = 0 THEN [items |-> <<>>, failure |-> "none"]
  ELSE IF \E i \in 1..Len(prods) : \E j \in 1..Len(prods[i].variants) :
            "id" \notin DOMAIN prods[i].variants[j]
       THEN [items |-> <<>>, failure |-> "prepare"]
       ELSE [items |-> PreparedFrom(prods, anas, 1), failure |-> "none"]

\* prediction.field || 0
OrZero(prediction, field) == IF field \in DOMAIN prediction THEN prediction[field] ELSE 0

\* _savePredictions, the first n predictions saved before a write fails
\* (n = Len(predictions) if none does).
RECURSIVE savePredictions(_, _, _, _)
savePredictions(anas, predictions, n, date) ==
  IF n = 0 THEN anas
  ELSE LET before == savePredictions(anas, predictions, n - 1, date)
           prediction == predictions[n]
           k == FirstMatch(before, LAMBDA a : a.variantId = prediction.productId)
       IN  IF k = 0 THEN before
           ELSE [before EXCEPT ![k] = SetFields(@,
                  [salesVelocity |->
                     [daily |-> Fraction(OrZero(prediction, "avgDailySales"), 1),
                      weekly |-> Fraction(OrZero(prediction, "avgDailySales") * 7, 1),
                      monthly |-> Fraction(OrZero(prediction, "avgDailySales") * 30, 1)],
                   restockRecommendations |->
                     [recommendedQuantity |-> OrZero(prediction, "recommendedOrderQuantity"),
                      daysUntilOutOfStock |-> OrZero(prediction, "daysUntilStockout"),
                      confidence |-> OrZero(prediction, "confidenceScore"),
                      urgency |-> "low"],
                   lastUpdated |-> date])]

VariantIds == {analytics[k].variantId : k \in 1..Len(analytics)}

NothingSaved == [called |-> FALSE, predictions |-> <<>>, n |-> 0, before |-> <<>>]

\* A call of _savePredictions with a list of predictions.
SavePredictions ==
  \E len \in 1..MaxPredictions :
    \E predictions \in [1..len -> Predictions(VariantIds \cup {"0"})] :
      \E n \in 0..len :
        /\ analytics' = savePredictions(analytics, predictions, n, now)
        /\ saved' = [called |-> TRUE, predictions |-> predictions, n |-> n,
                     before |-> analytics]
        /\ UNCHANGED <<platform, products, orders, now, runs, sync, bridge, report, request, service>>

\* getRestockRecommendations that throws when there is nothing to analyse.
getRestockRecommendationsThrowsOnEmpty(prepared, response) ==
  IF Len(prepared.items) = 0 THEN Raised(prepared.failure, 0)
  ELSE Returned(response.data, "none", 1)

getRestockRecommendations(prepared, response) ==
  IF Len(prepared.items) = 0 THEN Returned(<<>>, prepared.failure, 0)
  ELSE IF response.status \in {"network", "timeout"}        \* the catch block
       THEN Returned(<<>>, response.status, 1)
       ELSE IF response.status = "malformed"
            THEN Returned(<<>>, "malformed", 1)
            ELSE Returned(response.data, "none", 1)

runInventorySimulations(prepared, response) ==
  IF Len(prepared.items) = 0 THEN Returned(<<>>, prepared.failure, 0)
  ELSE IF response.status \in {"network", "timeout"}        \* the catch block
       THEN Returned(<<>>, response.status, 1)
       ELSE IF response.status = "malformed"
            THEN Returned(<<>>, "malformed", 1)
            ELSE Returned(response.data, "none", 1)

\* The responses a call can meet: none when it posts no request.
Exchanges(prepared) ==
  IF Len(prepared.items) = 0 THEN {Response("unsent", <<>>)} ELSE Responses(VariantIds)

\* AnalyticsAfterRestock that stores an error marker when the request failed.
AnalyticsAfterRestockMarksFailure(anas, prepared, response, n, date) ==
  LET call == getRestockRecommendations(prepared, response)
  IN  IF call.failure = "none"
      THEN anas
      ELSE [k \in 1..Len(anas) |->
              SetFields(anas[k], [restockRecommendations |-> [error |-> call.failure]])]

\* The InventoryAnalytics collection a getRestockRecommendations call leaves:
\* _savePredictions runs only after a response that carries predictions.
AnalyticsAfterRestock(anas, prepared, response, n, date) ==
  LET call == getRestockRecommendations(prepared, response)
  IN  IF call.outcome = "returned" /\ call.failure = "none" /\ call.requests > 0
      THEN savePredictions(anas, response.data, n, date)
      ELSE anas

GetRestockRecommendations ==
  \E readFails \in BOOLEAN :
    LET prepared == prepareInventoryData(products, analytics, readFails)
    IN  \E response \in Exchanges(prepared) : \E n \in 0..Len(response.data) :
          /\ bridge' = [bridge EXCEPT !["getRestockRecommendations"] =
                          getRestockRecommendations(prepared, response)]
          /\ analytics' = AnalyticsAfterRestock(analytics, prepared, response, n, now)
          /\ UNCHANGED <<platform, products, orders, now, runs, sync, saved, report, request, service>>

RunInventorySimulations ==
  \E readFails \in BOOLEAN :
    LET prepared == prepareInventoryData(products, analytics, readFails)
    IN  \E response \in Exchanges(prepared) :
        /\ bridge' = [bridge EXCEPT !["runInventorySimulations"] =
                        runInventorySimulations(prepared, response)]
        /\ UNCHANGED <<platform, products, orders, analytics, now, runs, sync, saved, report, request, service>>

(***************************************************************************)
(* The HTTP requests of AIService: axios.post / axios.get at each call     *)
(* site, with the config the site passes.                                  *)
(***************************************************************************)
AxiosDefaultTimeout == 0    \* no config.timeout: axios never aborts the request
InsightsTimeout == 30000    \* { timeout: 30000 }

CallSites ==
  {"getRestockRecommendations", "runInventorySimulations", "getAIInsights", "getSampleData"}

\* config.timeout at each call site, in ms.
RequestTimeout(site) ==
  IF site = "getAIInsights" THEN InsightsTimeout ELSE AxiosDefaultTimeout

NoRequests == [site \in CallSites |-> "idle"]

\* await axios.post(...) / axios.get(...): the request is sent.
SendRequest(site) ==
  /\ request[site] # "pending"
  /\ request' = [request EXCEPT ![site] = "pending"]
  /\ UNCHANGED <<platform, products, orders, analytics, now, runs, sync, bridge, saved,
                 report, service>>

\* The prediction service answers, or the connection fails: the promise
\* resolves or rejects.  Nothing obliges the service to answer.
ServiceAnswers(site) ==
  /\ request[site] = "pending"
  /\ \E settled \in {"resolved", "rejected"} :
       request' = [request EXCEPT ![site] = settled]
  /\ UNCHANGED <<platform, products, orders, analytics, now, runs, sync, bridge, saved,
                 report, service>>

\* axios aborts a request that has been pending for config.timeout ms, when
\* config.timeout is not 0: the promise rejects.
RequestTimesOut(site) ==
  /\ request[site] = "pending"
  /\ RequestTimeout(site) > 0
  /\ request' = [request EXCEPT ![site] = "rejected"]
  /\ UNCHANGED <<platform, products, orders, analytics, now, runs, sync, bridge, saved,
                 report, service>>

(***************************************************************************)
(* The analytics aggregator: getInventoryAnalytics and getDashboardData.   *)
(***************************************************************************)
PredictionHorizon == 7      \* daysUntilStockout <= 7
WeekDays == 7               \* avgDailySales * 7
PercentCap == 100           \* Math.min(..., 100)
HistoryWindow == 30         \* slice(-30)

Plus(r, q) == Fraction(r.n * q.d + q.n * r.d, r.d * q.d)

\* Round that truncates.
RoundDown(r) == r.n \div r.d

\* Math.round of the fraction r: the nearest integer, halves upwards.
Round(r) == (2 * r.n + r.d) \div (2 * r.d)

\* item.salesVelocity?.daily || 0
DailyOrZero(item) ==
  IF "salesVelocity" \in DOMAIN item THEN item.salesVelocity.daily ELSE Fraction(0, 1)

RECURSIVE SumSeq(_, _)
SumSeq(seq, i) == IF i > Len(seq) THEN 0 ELSE seq[i] + SumSeq(seq, i + 1)

RECURSIVE SumFractions(_, _)
SumFractions(seq, i) ==
  IF i > Len(seq) THEN Fraction(0, 1) ELSE Plus(seq[i], SumFractions(seq, i + 1))

\* One entry of productTrends.  A division by a zero currentStock gives
\* Infinity, which Math.round keeps and Math.min caps.
ProductTrend(product, anas) ==
  LET productAnalytics == SelectSeq(anas, LAMBDA a : a.shopifyProductId = product.shopifyId)
      currentStock == SumSeq([j \in 1..Len(product.variants) |->
                                product.variants[j].inventoryQuantity], 1)
      avgDailySales == SumFractions([j \in 1..Len(productAnalytics) |->
                                       DailyOrZero(productAnalytics[j])], 1)
      weekSales == Times(avgDailySales, WeekDays)
      selling == Len(productAnalytics) > 0 /\ avgDailySales.n > 0
  IN  [productId |-> product.shopifyId,
       name |-> product.title,
       currentStock |-> currentStock,
       trendDirection |-> IF selling THEN "down" ELSE "stable",
       percentChange |->
         IF ~selling THEN 0
         ELSE IF currentStock = 0 THEN PercentCap
         ELSE Min(Round(Fraction(weekSales.n * 100, weekSales.d * currentStock)),
                  PercentCap)]

\* The filter of predictedOutOfStock that also counts a stockout in 7 to 10 days.
WillRunOutLate(item, prods) ==
  /\ "salesVelocity" \in DOMAIN item
  /\ item.salesVelocity.daily.n > 0
  /\ \E i \in 1..Len(prods) : \E j \in 1..Len(prods[i].variants) :
       /\ prods[i].shopifyId = item.shopifyProductId
       /\ prods[i].variants[j].shopifyVariantId = item.variantId
       /\ prods[i].variants[j].inventoryQuantity * item.salesVelocity.daily.d
            <= 10 * item.salesVelocity.daily.n

\* The filter of predictedOutOfStock.
WillRunOut(item, prods) ==
  /\ "salesVelocity" \in DOMAIN item
  /\ item.salesVelocity.daily.n # 0
  /\ LET p == FirstMatch(prods, LAMBDA d : d.shopifyId = item.shopifyProductId)
     IN  /\ p > 0
         /\ LET v == FirstMatch(prods[p].variants,
                                LAMBDA d : d.shopifyVariantId = item.variantId)
            IN  /\ v > 0
                /\ LET currentStock == prods[p].variants[v].inventoryQuantity
                       dailySales == item.salesVelocity.daily
                   IN  /\ dailySales.n > 0
                       \* currentStock / dailySales <= 7
                       /\ currentStock * dailySales.d <= PredictionHorizon * dailySales.n

\* The day (YYYY-MM-DD) of a date.
DateKey(date) == date \div HoursPerDay

RECURSIVE AllObservations(_, _)
AllObservations(anas, k) ==
  IF k > Len(anas) THEN <<>>
  ELSE anas[k].historicalQuantities \o AllObservations(anas, k + 1)

RECURSIVE Ascending(_)
Ascending(S) ==
  IF S = {} THEN <<>>
  ELSE LET m == CHOOSE x \in S : \A y \in S : x <= y
       IN  <<m>> \o Ascending(S \ {m})

\* inventoryHistory: the total quantity observed per day, oldest day first,
\* the last 30 days.
InventoryHistory(anas) ==
  LET all == AllObservations(anas, 1)
      days == Ascending({DateKey(all[i].date) : i \in 1..Len(all)})
      Total(day) == SumSeq([i \in 1..Len(all) |->
                              IF DateKey(all[i].date) = day THEN all[i].quantity ELSE 0], 1)
      history == [i \in 1..Len(days) |-> [date |-> days[i], totalStock |-> Total(days[i])]]
  IN  IF Len(history) <= HistoryWindow THEN history
      ELSE SubSeq(history, Len(history) - HistoryWindow + 1, Len(history))

NotReported ==
  [success |-> FALSE, called |-> FALSE, totalProducts |-> 0, lowStockItems |-> 0,
   predictedOutOfStock |-> 0, inventoryHistory |-> <<>>, productTrends |-> <<>>]

getInventoryAnalytics(prods, anas, readFails) ==
  IF readFails                                      \* the catch block
  THEN [NotReported EXCEPT !.called = TRUE]
  ELSE [success |-> TRUE, called |-> TRUE,
        totalProducts |-> Len(prods),
        lowStockItems |->
          Cardinality({k \in 1..Len(anas) : anas[k].stockStatus = "low"}),
        predictedOutOfStock |->
          Cardinality({k \in 1..Len(anas) : WillRunOut(anas[k], prods)}),
        inventoryHistory |-> InventoryHistory(anas),
        productTrends |-> [i \in 1..Len(prods) |-> ProductTrend(prods[i], anas)]]

NotAnswered ==
  [success |-> FALSE, called |-> FALSE, totalProducts |-> 0, totalVariants |-> 0,
   lowStockCount |-> 0, outOfStockCount |-> 0]

\* getDashboardData (the inventory value, a sum over prices, is left out: the
\* model keeps no prices).
getDashboardData(prods, anas, readFails) ==
  IF readFails                                      \* the catch block: status 500
  THEN [NotAnswered EXCEPT !.called = TRUE]
  ELSE [success |-> TRUE, called |-> TRUE,
        totalProducts |-> Len(prods),
        totalVariants |-> SumSeq([i \in 1..Len(prods) |-> Len(prods[i].variants)], 1),
        lowStockCount |->
          Cardinality({k \in 1..Len(anas) : anas[k].stockStatus = "Low Stock"}),
        outOfStockCount |->
          Cardinality({k \in 1..Len(anas) : anas[k].stockStatus = "Out of Stock"})]

\* .sort({ lastUpdated: -1 }): the documents of anas at the indices ks,
\* newest first, equal dates in stored order.
RECURSIVE NewestUpdatedFirst(_, _)
NewestUpdatedFirst(anas, ks) ==
  IF ks = {} THEN <<>>
  ELSE LET k == CHOOSE x \in ks : \A y \in ks :
                  \/ anas[x].lastUpdated > anas[y].lastUpdated
                  \/ (anas[x].lastUpdated = anas[y].lastUpdated /\ x <= y)
       IN  <<anas[k]>> \o NewestUpdatedFirst(anas, ks \ {k})

NotListed == [success |-> FALSE, called |-> FALSE, count |-> 0, data |-> <<>>]

\* getRestockRecommendations of the analytics controller: the low and out of
\* stock analytics documents joined with their product and variant.
RestockItems(prods, anas, readFails) ==
  IF readFails                                      \* the catch block: status 500
  THEN [NotListed EXCEPT !.called = TRUE]
  ELSE LET found == NewestUpdatedFirst(anas,
                      {k \in 1..Len(anas) :
                         anas[k].stockStatus \in {"Low Stock", "Out of Stock"}})
           Prod(item) == FirstMatch(prods, LAMBDA d : d.shopifyId = item.shopifyProductId)
           Var(item) == FirstMatch(prods[Prod(item)].variants,
                                   LAMBDA d : d.shopifyVariantId = item.variantId)
           joined == SelectSeq(found, LAMBDA item : Prod(item) > 0 /\ Var(item) > 0)
           data == [j \in 1..Len(joined) |->
                      LET item == joined[j]
                          product == prods[Prod(item)]
                          variant == product.variants[Var(item)]
                      IN  [productId |-> product._id,
                           shopifyProductId |-> product.shopifyId,
                           variantId |-> variant.shopifyVariantId,
                           currentStock |-> variant.inventoryQuantity,
                           lowStockThreshold |-> item.lowStockThreshold,
                           stockStatus |-> item.stockStatus]]
       IN  [success |-> TRUE, called |-> TRUE, count |-> Len(data), data |-> data]

NoReports == [getInventoryAnalytics |-> NotReported, getDashboardData |-> NotAnswered,
              getRestockRecommendations |-> NotListed]

GetRestockItems ==
  \E readFails \in BOOLEAN :
    /\ report' = [report EXCEPT !.getRestockRecommendations =
                    RestockItems(products, analytics, readFails)]
    /\ UNCHANGED <<platform, products, orders, analytics, now, runs, sync, bridge, saved, request, service>>

GetInventoryAnalytics ==
  \E readFails \in BOOLEAN :
    /\ report' = [report EXCEPT !.getInventoryAnalytics =
                    getInventoryAnalytics(products, analytics, readFails)]
    /\ UNCHANGED <<platform, products, orders, analytics, now, runs, sync, bridge, saved, request, service>>

GetDashboardData ==
  \E readFails \in BOOLEAN :
    /\ report' = [report EXCEPT !.getDashboardData =
                    getDashboardData(products, analytics, readFails)]
    /\ UNCHANGED <<platform, products, orders, analytics, now, runs, sync, bridge, saved, request, service>>

(***************************************************************************)
(* Initial states.                                                         *)
(***************************************************************************)
\* On-hand quantities around the classification boundaries; the variants of a
\* platform take consecutive quantities of the cycle, from any offset.
QuantityCycle == <<-1, 0, 5, 6, 1>>
Quantity(offset, j) == QuantityCycle[((offset + j) % Len(QuantityCycle)) + 1]

\* Small platforms: n <= MaxProducts products and n orders.  Product 1 has two
\* variants, the others one; the last product and the last order may be malformed.
SmallProducts(n, offset, bad) ==
  [pid \in 1..n |->
     ShopifyProduct(pid, ~(bad /\ pid = n),
       IF pid = 1
       THEN <<ShopifyVariant(pid, 1, Quantity(offset, 1)),
              ShopifyVariant(pid, 2, Quantity(offset, 2))>>
       ELSE <<ShopifyVariant(pid, 1, Quantity(offset, pid + 1))>>)]

SmallOrders(n, bad) == [oid \in 1..n |-> ShopifyOrder(oid, ~(bad /\ oid = n))]

EmptyRepository ==
  /\ products = <<>>
  /\ orders = <<>>
  /\ analytics = <<>>
  /\ now = 0

Init ==
  /\ \E n \in 0..MaxProducts : \E offset \in 0..(Len(QuantityCycle) - 1) :
       \E bad \in BOOLEAN :
         platform = [products |-> SmallProducts(n, offset, bad),
                     orders |-> SmallOrders(n, bad)]
  /\ EmptyRepository
  /\ runs = 0
  /\ sync = [p \in Procs |-> Idle]
  /\ bridge = NoCalls
  /\ saved = NothingSaved
  /\ report = NoReports
  /\ request = NoRequests
  /\ service = NoService

\* Large platforms: n uniform records in each listing, none or the middle one
\* malformed; n runs over the page boundaries.
PagingSizes ==
  {0, 1, BatchSize}
    \cup UNION {{k * PageSize - 1, k * PageSize, k * PageSize + 1} : k \in 1..MaxPages}

LargeProducts(n, bad) ==
  [pid \in 1..n |-> ShopifyProduct(pid, pid # bad, <<ShopifyVariant(pid, 1, 6)>>)]

LargeOrders(n, bad) == [oid \in 1..n |-> ShopifyOrder(oid, oid # bad)]

\* One call on a large platform.
InitPaging ==
  /\ \E n \in PagingSizes : \E bad \in {0, (n + 1) \div 2} :
       platform = [products |-> LargeProducts(n, bad), orders |-> LargeOrders(n, bad)]
  /\ EmptyRepository
  /\ runs = MaxRuns - 1
  /\ sync = [p \in Procs |-> Idle]
  /\ bridge = NoCalls
  /\ saved = NothingSaved
  /\ report = NoReports
  /\ request = NoRequests
  /\ service = NoService
NextPaging == SyncStep(1)
SpecPaging == InitPaging /\ [][NextPaging]_vars

\* Sequential calls (one call slot) on a small platform.
NextSeq == SyncStep(1) \/ Tick
SpecSeq == Init /\ [][NextSeq]_vars

\* Two call slots on a small platform: calls interleave at every await.
Next == (\E p \in Procs : SyncStep(p)) \/ Tick
Spec == Init /\ [][Next]_vars

\* Two call slots with the clock standing still and one stock level per
\* variant: which documents exist depends on neither timestamps nor quantities.
InitUpsert ==
  /\ \E n \in 0..MaxProducts : \E bad \in BOOLEAN :
       platform = [products |-> SmallProducts(n, 0, bad), orders |-> SmallOrders(n, bad)]
  /\ EmptyRepository
  /\ runs = 0
  /\ sync = [p \in Procs |-> Idle]
  /\ bridge = NoCalls
  /\ saved = NothingSaved
  /\ report = NoReports
  /\ request = NoRequests
  /\ service = NoService
NextUpsert == \E p \in Procs : SyncStep(p)
SpecUpsert == InitUpsert /\ [][NextUpsert]_vars

\* Two product sync slots on a platform of one product with two variants,
\* the first of which has a stock that moves between the passes' steps.
InitStatus ==
  /\ platform = [products |-> SmallProducts(1, 0, FALSE), orders |-> <<>>]
  /\ EmptyRepository
  /\ runs = 0
  /\ sync = [p \in Procs |-> Idle]
  /\ bridge = NoCalls
  /\ saved = NothingSaved
  /\ report = NoReports
  /\ request = NoRequests
  /\ service = NoService
NextStatus ==
  \/ \E p \in Procs : SyncStep(p) /\ sync'[p].kind = "products"
  \/ EditQuantity
SpecStatus == InitStatus /\ [][NextStatus]_vars

\* syncAllData calls: a product sync and an order sync interleaving at every
\* await (the clock stands still, so that timestamps do not tell runs apart).
NextAll == SyncAllData \/ \E p \in Procs : SyncProgress(p)
SpecAll == Init /\ [][NextAll]_vars

\* Sequential sync calls of a platform whose products are edited between them.
NextReplace == SyncStep(1) \/ EditProduct
SpecReplace == Init /\ [][NextReplace]_vars

\* Stored observation lists of up to MaxObservations entries, in any storage
\* order, with repeated dates, increases and decreases.
ObservationDates == {0, 12, 24, 48, 72}
ObservationQuantities == {70, 90, 100}
Observations == [date : ObservationDates, quantity : ObservationQuantities]
Histories == UNION {[1..n -> Observations] : n \in 0..MaxObservations}

AnalyticsWith(h) ==
  [shopifyProductId |-> "1", variantId |-> "11", productId |-> 1, title |-> "p",
   sku |-> "sku", lowStockThreshold |-> DefaultThreshold, historicalQuantities |-> h,
   stockStatus |-> "In Stock", lastUpdated |-> 0]

\* The velocity computation applied to one stored document.
InitVelocity ==
  /\ platform = [products |-> <<>>, orders |-> <<>>]
  /\ products = <<>>
  /\ orders = <<>>
  /\ \E h \in Histories : analytics = <<AnalyticsWith(h)>>
  /\ now = 0
  /\ runs = 0
  /\ sync = [p \in Procs |-> Idle]
  /\ bridge = NoCalls
  /\ saved = NothingSaved
  /\ report = NoReports
  /\ request = NoRequests
  /\ service = NoService
NextVelocity == \E k \in 1..Len(analytics) : SaveSalesVelocity(k)
SpecVelocity == InitVelocity /\ [][NextVelocity]_vars

\* Sequential sync calls and calls of the bridge between their steps (the
\* bridge reads no timestamp, so the clock stands still).
NextBridge ==
  \/ SyncStep(1)
  \/ GetRestockRecommendations
  \/ RunInventorySimulations
SpecBridge == Init /\ [][NextBridge]_vars

\* Sequential sync calls, the velocity refresh of getInventoryAnalytics between
\* them (its loop caches record after record) and recommendation requests.
NextRestock ==
  \/ SyncStep(1)
  \/ \E k \in 1..Len(analytics) :
       /\ Ended(sync[1])
       /\ \A j \in 1..(k - 1) : "salesVelocity" \in DOMAIN analytics[j]
       /\ SaveSalesVelocity(k)
  \/ GetRestockRecommendations
SpecRestock == Init /\ [][NextRestock]_vars

\* _savePredictions applied to a repository of analytics documents, some with
\* a cached velocity.
CachedVelocity == [daily |-> Fraction(3, 1), weekly |-> Fraction(21, 1),
                   monthly |-> Fraction(90, 1), lastUpdated |-> 0]
AnalyticsOf(pid, cached) ==
  LET a == [shopifyProductId |-> ToString(pid), variantId |-> ToString(10 * pid + 1),
            productId |-> pid, title |-> "p", sku |-> "sku",
            lowStockThreshold |-> DefaultThreshold,
            historicalQuantities |-> <<[date |-> 0, quantity |-> 6]>>,
            stockStatus |-> "In Stock", lastUpdated |-> 0]
  IN  IF cached THEN SetFields(a, [salesVelocity |-> CachedVelocity]) ELSE a

InitSave ==
  /\ platform = [products |-> <<>>, orders |-> <<>>]
  /\ products = <<>>
  /\ orders = <<>>
  /\ \E n \in 1..MaxProducts : \E cached \in [1..n -> BOOLEAN] :
       analytics = [pid \in 1..n |-> AnalyticsOf(pid, cached[pid])]
  /\ now = 0
  /\ runs = 0
  /\ sync = [p \in Procs |-> Idle]
  /\ bridge = NoCalls
  /\ saved = NothingSaved
  /\ report = NoReports
  /\ request = NoRequests
  /\ service = NoService
NextSave == SavePredictions
SpecSave == InitSave /\ [][NextSave]_vars

\* saveAIRecommendations applied to a repository of analytics documents.
NextRecommend == SaveAIRecommendations
SpecRecommend == InitSave /\ [][NextRecommend]_vars

\* The analytics service's recomputation alone, on up to two documents: the
\* first with any short observation list and perhaps a velocity cached
\* earlier, the second new or selling.
ShortHistories == UNION {[1..n -> Observations] : n \in 0..2}
SellingHistories ==
  {<<>>, <<[date |-> 0, quantity |-> 100], [date |-> 24, quantity |-> 70]>>}
InitUpdate ==
  /\ platform = [products |-> <<>>, orders |-> <<>>]
  /\ products = <<>>
  /\ orders = <<>>
  /\ \E n \in 0..2 : \E cached \in BOOLEAN :
     \E hs \in {h \in [1..n -> ShortHistories \cup SellingHistories] :
                  \A k \in 2..n : h[k] \in SellingHistories} :
       analytics = [k \in 1..n |->
                      LET a == [AnalyticsWith(hs[k]) EXCEPT !.variantId = ToString(10 + k)]
                      IN  IF cached /\ k = 1
                          THEN SetFields(a, [salesVelocity |-> CachedVelocity]) ELSE a]
  /\ now = 0
  /\ runs = 0
  /\ sync = [p \in Procs |-> Idle]
  /\ bridge = NoCalls
  /\ saved = NothingSaved
  /\ report = NoReports
  /\ request = NoRequests
  /\ service = NoService
NextUpdate == updateAnalytics
SpecUpdate == InitUpdate /\ [][NextUpdate]_vars

\* Sequential product syncs of a platform whose products lose variants between
\* them, and the aggregation reads.
EditVariants ==
  /\ EditProduct
  /\ \A i \in 1..Len(platform.products) :
       DOMAIN platform'.products[i] = DOMAIN platform.products[i]
NextOrphan ==
  \/ SyncStep(1)
  \/ EditVariants
  \/ GetDashboardData
  \/ GetInventoryAnalytics
  \/ GetRestockItems
SpecOrphan == Init /\ [][NextOrphan]_vars

\* Product and order syncs with the analytics service's velocity
\* recomputation running between their steps.
NextService ==
  \/ SyncStep(1)
  \/ updateAnalytics
SpecService == InitUpsert /\ [][NextService]_vars

\* The aggregator applied to a synced repository: every variant with one of
\* the stock levels, and with no analytics record, a record without a cached
\* velocity (read as a daily velocity of 0), or a record with one of the
\* cached velocities.
StockLevels == {0, 5, 14, 20}
DailyVelocities == {Fraction(2, 1), Fraction(5, 2)}
VelocityOf(daily) ==
  [daily |-> daily, weekly |-> Times(daily, 7), monthly |-> Times(daily, 30),
   lastUpdated |-> 0]
Caches == {"no record", "no velocity"} \cup {ToString(v.n) : v \in DailyVelocities}
CachedDaily(cache) == CHOOSE v \in DailyVelocities : ToString(v.n) = cache

\* The variants of the small platform's product pid: two for the first, one
\* for the others.
VariantSlots(n) == {s \in (1..n) \X (1..2) : s[2] = 1 \/ s[1] = 1}

SyncedProduct(pid, stock) ==
  SetFields([_id |-> pid],
    NormalizeProduct(
      ShopifyProduct(pid, TRUE,
        [k \in 1..(IF pid = 1 THEN 2 ELSE 1) |-> ShopifyVariant(pid, k, stock[<<pid, k>>])]),
      0))

SyncedAnalytics(product, variant, cache) ==
  LET a == NewAnalytics(product, variant, 0)
  IN  IF cache = "no velocity" THEN a
      ELSE SetFields(a, [salesVelocity |-> VelocityOf(CachedDaily(cache))])

RECURSIVE AnalyticsFor(_, _, _)
AnalyticsFor(prods, cache, slots) ==
  IF slots = {} THEN <<>>
  ELSE LET s == CHOOSE x \in slots : \A y \in slots :
                  x[1] < y[1] \/ (x[1] = y[1] /\ x[2] <= y[2])
           rest == AnalyticsFor(prods, cache, slots \ {s})
       IN  IF cache[s] = "no record" THEN rest
           ELSE <<SyncedAnalytics(prods[s[1]], prods[s[1]].variants[s[2]], cache[s])>>
                  \o rest

InitDashboard ==
  /\ platform = [products |-> <<>>, orders |-> <<>>]
  /\ orders = <<>>
  /\ \E n \in 0..MaxProducts :
       \E stock \in [VariantSlots(n) -> StockLevels] :
         \E cache \in [VariantSlots(n) -> Caches] :
           /\ products = [pid \in 1..n |-> SyncedProduct(pid, stock)]
           /\ analytics = AnalyticsFor(products, cache, VariantSlots(n))
  /\ now = 0
  /\ runs = 0
  /\ sync = [p \in Procs |-> Idle]
  /\ bridge = NoCalls
  /\ saved = NothingSaved
  /\ report = NoReports
  /\ request = NoRequests
  /\ service = NoService
NextDashboard == GetInventoryAnalytics \/ GetDashboardData
SpecDashboard == InitDashboard /\ [][NextDashboard]_vars

\* The requests of the call sites, each taken from the moment it is sent.
\* Timers run: a request with a timeout does not stay pending for ever.
InitRequest ==
  /\ platform = [products |-> <<>>, orders |-> <<>>]
  /\ EmptyRepository
  /\ runs = 0
  /\ sync = [p \in Procs |-> Idle]
  /\ bridge = NoCalls
  /\ saved = NothingSaved
  /\ report = NoReports
  /\ request = NoRequests
  /\ service = NoService
NextRequest ==
  \E site \in CallSites :
    \/ SendRequest(site)
    \/ ServiceAnswers(site)
    \/ RequestTimesOut(site)
SpecRequest ==
  /\ InitRequest
  /\ [][NextRequest]_vars
  /\ \A site \in CallSites : WF_vars(RequestTimesOut(site))

(***************************************************************************)
(* Properties of the sync pipeline.                                        *)
(***************************************************************************)
WithoutTimestamps(d) == [f \in DOMAIN d \ {"lastUpdated"} |-> d[f]]
Documents(coll) == {WithoutTimestamps(coll[k]) : k \in 1..Len(coll)}

\* Observations stored for one (product, variant) pair, over all its documents.
HistoryLength(coll, pid, vid) ==
  LET RECURSIVE Sum(_)
      Sum(k) ==
        IF k = 0 THEN 0
        ELSE Sum(k - 1)
               + (IF coll[k].shopifyProductId = pid /\ coll[k].variantId = vid
                  THEN Len(coll[k].historicalQuantities) ELSE 0)
  IN  Sum(Len(coll))

RecordsFor(coll, pid, vid) ==
  {k \in 1..Len(coll) : coll[k].shopifyProductId = pid /\ coll[k].variantId = vid}

CeilPages(n) == (n + PageSize - 1) \div PageSize

Collection(kind) == IF kind = "products" THEN products ELSE orders

\* C2 as stated: a call that returns has issued ceil(N / P) page requests and
\* upserted N records, for every N.
C2_CeilPageRequests ==
  \A p \in Procs :
    sync[p].pc = "done" =>
      /\ sync[p].requests = CeilPages(Len(Listing(sync[p].kind)))
      /\ sync[p].saved = Len(Listing(sync[p].kind))

\* C2 amended: a call that returns has issued floor(N / P) + 1 page requests,
\* has upserted each of the N records once, and returns the count N.
C2_PageRequests ==
  \A p \in Procs :
    sync[p].pc = "done" =>
      LET n == Len(Listing(sync[p].kind))
      IN  /\ sync[p].requests = (n \div PageSize) + 1
          /\ sync[p].saved = n
          /\ {d.shopifyId : d \in Documents(Collection(sync[p].kind))}
               = {ToString(id) : id \in 1..n}
          /\ Len(Collection(sync[p].kind)) = n

C2_Witness ==
  /\ sync[1].pc = "done"
  /\ Len(Listing(sync[1].kind)) = MaxPages * PageSize
  /\ sync[1].requests = MaxPages + 1
  /\ sync[1].saved = MaxPages * PageSize

WellFormed(kind, listing) ==
  {k \in 1..Len(listing) : ~NormalizeThrows(kind, listing[k])}

\* C3 as stated: once the pages are fetched a failing record never ends the
\* call in error; the call returns with every well-formed record upserted.
C3_RecordFailureIsolated ==
  \A p \in Procs :
    /\ sync[p].pc = "failed" => sync[p].error = "fetch"
    /\ sync[p].pc = "done" =>
         sync[p].saved = Cardinality(WellFormed(sync[p].kind, sync[p].all))

\* C4: a call in which a page request failed has ended in error and the
\* repository is as it was when the call began.
C4_FetchFailureWritesNothing ==
  LET s == sync[1]
  IN  s.error = "fetch" =>
        /\ s.pc = "failed"
        /\ products = s.before.products
        /\ orders = s.before.orders
        /\ analytics = s.before.analytics

C4_Witness ==
  /\ sync[1].pc = "failed" /\ sync[1].error = "fetch"
  /\ Len(sync[1].all) = MaxPages * PageSize
  /\ sync[1].requests = MaxPages + 1

InFlight(p) == ~Ended(sync[p])

\* C5 as stated: two product sync passes are never in flight together.
C5_SingleFlight ==
  \A p, q \in Procs :
    (p # q /\ sync[p].kind = "products" /\ sync[q].kind = "products")
      => ~(InFlight(p) /\ InFlight(q))

\* C6 as stated: never two InventoryAnalytics documents for one
\* (shopifyProductId, variantId), and exactly one for every variant a
\* completed pass processed.
C6_OneAnalyticsPerVariant ==
  /\ \A j, k \in 1..Len(analytics) :
       (analytics[j].shopifyProductId = analytics[k].shopifyProductId
          /\ analytics[j].variantId = analytics[k].variantId) => j = k
  /\ \A p \in Procs :
       (sync[p].pc = "done" /\ sync[p].kind = "products") =>
         \A n \in 1..Len(sync[p].all) : \A j \in 1..Len(sync[p].all[n].variants) :
           Cardinality(RecordsFor(analytics, ToString(sync[p].all[n].id),
                                  ToString(sync[p].all[n].variants[j].id))) = 1

\* The variants the call of slot p has processed so far: <<record, variant>>.
Processed(p) ==
  LET s == sync[p]
  IN  {<<n, j>> \in (1..Len(s.all)) \X (1..2) :
         /\ s.kind = "products"
         /\ j <= Len(s.all[n].variants)
         /\ \/ n < s.i
            \/ n = s.i /\ s.pc \in {"analytics", "insert"} /\ j < s.v}

\* The classification the data model gives: against the record's threshold.
ThresholdStatus(q, threshold) ==
  IF q <= 0 THEN "Out of Stock"
  ELSE IF q <= threshold THEN "Low Stock" ELSE "In Stock"

\* C7: once a product sync has processed a variant with quantity q, the
\* variant's InventoryAnalytics has stockStatus Out of Stock for q <= 0, Low
\* Stock for 0 < q <= lowStockThreshold, In Stock otherwise.
C7_StockStatusClassification ==
  \A c \in Processed(1) :
    LET r == sync[1].all[c[1]]
        q == r.variants[c[2]].inventory_quantity
        recs == RecordsFor(analytics, ToString(r.id), ToString(r.variants[c[2]].id))
    IN  /\ recs # {}
        /\ \A k \in recs :
             analytics[k].stockStatus = ThresholdStatus(q, analytics[k].lowStockThreshold)

C7_Witness ==
  /\ sync[1].pc = "done" /\ sync[1].kind = "products"
  /\ \E a, b, c \in 1..Len(analytics) :
       /\ analytics[a].historicalQuantities[1].quantity = 0
       /\ analytics[a].stockStatus = "Out of Stock"
       /\ analytics[b].historicalQuantities[1].quantity = analytics[b].lowStockThreshold
       /\ analytics[b].stockStatus = "Low Stock"
       /\ analytics[c].historicalQuantities[1].quantity = analytics[c].lowStockThreshold + 1
       /\ analytics[c].stockStatus = "In Stock"

(***************************************************************************)
(* Properties of the velocity computation.                                 *)
(***************************************************************************)
\* The sum of f[k] over the finite set S of naturals.
RECURSIVE SumOver(_, _)
SumOver(S, f) ==
  IF S = {} THEN 0
  ELSE LET x == CHOOSE y \in S : TRUE IN f[x] + SumOver(S \ {x}, f)

\* Place of stored entry i among the observations sorted newest first (ties
\* keep their storage order).
Place(h, i) ==
  1 + Cardinality({j \in 1..Len(h) :
                     h[j].date > h[i].date \/ (h[j].date = h[i].date /\ j < i)})

\* The stored index of the entry at place k.
AtPlace(h, k) == CHOOSE i \in 1..Len(h) : Place(h, i) = k

\* The velocity the design gives for a stored list h.
ExpectedVelocity(h) ==
  LET q(k) == h[AtPlace(h, k)].quantity
      t(k) == h[AtPlace(h, k)].date
      decreasing == {k \in 1..(Len(h) - 1) : q(k + 1) - q(k) > 0}
      totalDecrease == SumOver(decreasing, [k \in decreasing |-> q(k + 1) - q(k)])
      totalHours == SumOver(decreasing, [k \in decreasing |-> t(k) - t(k + 1)])
      daily == IF Len(h) >= 2 /\ totalHours > 0
               THEN Fraction(totalDecrease * HoursPerDay, totalHours)
               ELSE Fraction(0, 1)
  IN  [daily |-> daily,
       weekly |-> Fraction(daily.n * 7, daily.d),
       monthly |-> Fraction(daily.n * 30, daily.d)]

\* [100, 90, 90, 70] at one-day spacing, oldest first.
ScenarioHistory ==
  <<[date |-> 0, quantity |-> 100], [date |-> 24, quantity |-> 90],
    [date |-> 48, quantity |-> 90], [date |-> 72, quantity |-> 70]>>

Computed == {k \in 1..Len(analytics) : "salesVelocity" \in DOMAIN analytics[k]}

\* C8: the computed velocity is daily = totalDecrease / totalDays over the
\* decreasing consecutive pairs of the newest-first list (0 when totalDays is
\* not positive or there are fewer than 2 observations), weekly = daily * 7,
\* monthly = daily * 30; the scenario list gives 15, 105, 450.
C8_VelocityFormula ==
  \A k \in Computed :
    LET a == analytics[k]
        e == ExpectedVelocity(a.historicalQuantities)
    IN  /\ a.salesVelocity.daily = e.daily
        /\ a.salesVelocity.weekly = e.weekly
        /\ a.salesVelocity.monthly = e.monthly
        /\ Len(a.historicalQuantities) < 2 =>
             /\ a.salesVelocity.daily = Fraction(0, 1)
             /\ a.salesVelocity.weekly = Fraction(0, 1)
             /\ a.salesVelocity.monthly = Fraction(0, 1)
        /\ a.historicalQuantities = ScenarioHistory =>
             /\ a.salesVelocity.daily = Fraction(15, 1)
             /\ a.salesVelocity.weekly = Fraction(105, 1)
             /\ a.salesVelocity.monthly = Fraction(450, 1)

C8_Witness ==
  \E k \in Computed :
    /\ analytics[k].historicalQuantities = ScenarioHistory
    /\ analytics[k].salesVelocity.daily = Fraction(15, 1)
    /\ analytics[k].salesVelocity.monthly = Fraction(450, 1)

\* C9: the computed daily, weekly and monthly velocity are never negative.
C9_VelocityNonNegative ==
  \A k \in Computed :
    /\ analytics[k].salesVelocity.daily.n >= 0 /\ analytics[k].salesVelocity.daily.d > 0
    /\ analytics[k].salesVelocity.weekly.n >= 0 /\ analytics[k].salesVelocity.weekly.d > 0
    /\ analytics[k].salesVelocity.monthly.n >= 0 /\ analytics[k].salesVelocity.monthly.d > 0

\* A list stored newest first, with an increase, a decrease and a repeated date.
C9_Witness ==
  \E k \in Computed :
    LET h == analytics[k].historicalQuantities
    IN  /\ Len(h) = 4
        /\ h[1].date > h[2].date /\ h[2].date = h[3].date /\ h[3].date > h[4].date
        /\ h[1].quantity > h[2].quantity /\ h[3].quantity < h[4].quantity
        /\ analytics[k].salesVelocity.daily.n > 0

PostedPayload == [items |-> <<[id |-> "11"]>>, failure |-> "none"]

Naming(a) ==
  {j \in 1..Len(saved.predictions) : saved.predictions[j].productId = a.variantId}

Velocity(a) == IF "salesVelocity" \in DOMAIN a THEN a.salesVelocity ELSE <<>>

\* C12: after a fulfilled request whose predictions were all saved, a record
\* matched by a prediction holds the (last) prediction in restockRecommendations,
\* its salesVelocity is that prediction's when one of them carries a velocity
\* and is otherwise the previously cached one; other records are unchanged.
C12_PredictionsWrittenBack ==
  (saved.called /\ saved.n = Len(saved.predictions)) =>
    \A k \in 1..Len(analytics) :
      LET a == analytics[k]
          old == saved.before[k]
          js == Naming(old)
          last == CHOOSE j \in js : \A i \in js : i <= j
          withVelocity == {j \in js : "avgDailySales" \in DOMAIN saved.predictions[j]}
      IN  IF js = {} THEN a = old
          ELSE /\ "restockRecommendations" \in DOMAIN a
               /\ a.restockRecommendations.recommendedQuantity
                    = saved.predictions[last].recommendedOrderQuantity
               /\ withVelocity = {} => Velocity(a) = Velocity(old)
               /\ "avgDailySales" \in DOMAIN saved.predictions[last] =>
                    a.salesVelocity.daily
                      = Fraction(saved.predictions[last].avgDailySales, 1)

\* The stored (product, variant) pairs that have an InventoryAnalytics record.
JoinedVariants ==
  {pv \in UNION {{<<i, j>> : j \in 1..Len(products[i].variants)} : i \in 1..Len(products)} :
     \E k \in 1..Len(analytics) :
       analytics[k].variantId = products[pv[1]].variants[pv[2]].shopifyVariantId}

\* C13: the payload built from the repository holds exactly one record per
\* stored (product, variant) that has an InventoryAnalytics record and none
\* for the others; with at least one such variant it is non-empty and a
\* request is posted.
C13_PayloadCoversVariants ==
  LET prepared == prepareInventoryData(products, analytics, FALSE)
  IN  /\ Len(prepared.items) = Cardinality(JoinedVariants)
      /\ \A pv \in JoinedVariants :
           Cardinality({k \in 1..Len(prepared.items) :
                          prepared.items[k].id
                            = products[pv[1]].variants[pv[2]].shopifyVariantId}) = 1
      /\ JoinedVariants # {} =>
           \A response \in Responses(VariantIds) :
             /\ getRestockRecommendations(prepared, response).requests = 1
             /\ runInventorySimulations(prepared, response).requests = 1

(***************************************************************************)
(* Properties of the analytics aggregator.                                 *)
(***************************************************************************)
\* The stored variants a record is about.
VariantsOf(a) ==
  {pv \in UNION {{<<i, j>> : j \in 1..Len(products[i].variants)} : i \in 1..Len(products)} :
     /\ products[pv[1]].shopifyId = a.shopifyProductId
     /\ products[pv[1]].variants[pv[2]].shopifyVariantId = a.variantId}

StockOf(pv) == products[pv[1]].variants[pv[2]].inventoryQuantity

HasDaily(a, n, d) ==
  "salesVelocity" \in DOMAIN a /\ a.salesVelocity.daily = Fraction(n, d)

\* The records whose variant runs out within the week at the cached velocity.
RunningOut ==
  {k \in 1..Len(analytics) :
     /\ "salesVelocity" \in DOMAIN analytics[k]
     /\ analytics[k].salesVelocity.daily.n > 0
     /\ \E pv \in VariantsOf(analytics[k]) :
          7 * analytics[k].salesVelocity.daily.n
            >= StockOf(pv) * analytics[k].salesVelocity.daily.d}

\* C14: the predicted-out-of-stock count is the number of records with a
\* cached daily velocity > 0 and stock / velocity <= 7; stock 14 at velocity 2
\* is counted, stock 20 at velocity 2 is not.
C14_PredictedOutOfStockCount ==
  report.getInventoryAnalytics.success =>
    /\ report.getInventoryAnalytics.predictedOutOfStock = Cardinality(RunningOut)
    /\ \A k \in 1..Len(analytics) : \A pv \in VariantsOf(analytics[k]) :
         /\ (StockOf(pv) = 14 /\ HasDaily(analytics[k], 2, 1))
              => WillRunOut(analytics[k], products)
         /\ (StockOf(pv) = 20 /\ HasDaily(analytics[k], 2, 1))
              => ~WillRunOut(analytics[k], products)

\* Two records at velocity 2, one with stock 14 and one with stock 20: one counted.
C14_Witness ==
  /\ report.getInventoryAnalytics.success
  /\ Len(analytics) = 2
  /\ \E k \in 1..2 : \E pv \in VariantsOf(analytics[k]) :
       StockOf(pv) = 14 /\ HasDaily(analytics[k], 2, 1)
  /\ \E k \in 1..2 : \E pv \in VariantsOf(analytics[k]) :
       StockOf(pv) = 20 /\ HasDaily(analytics[k], 2, 1)
  /\ report.getInventoryAnalytics.predictedOutOfStock = 1

\* The sum of the cached daily velocities of the records in S.
RECURSIVE VelocitySum(_)
VelocitySum(S) ==
  IF S = {} THEN Fraction(0, 1)
  ELSE LET k == CHOOSE x \in S : TRUE
       IN  Plus(DailyOrZero(analytics[k]), VelocitySum(S \ {k}))

RecordsOf(product) ==
  {k \in 1..Len(analytics) : analytics[k].shopifyProductId = product.shopifyId}

TotalStock(product) ==
  SumOver(1..Len(product.variants),
          [j \in 1..Len(product.variants) |-> product.variants[j].inventoryQuantity])

\* min(round(weekly / stock * 100), 100) for weekly = 7 * daily and stock > 0:
\* the integer r with r - 1/2 <= weekly / stock * 100 < r + 1/2, capped.
ExpectedPercent(daily, stock) ==
  LET num == 700 * daily.n
      den == daily.d * stock
      r == CHOOSE x \in 0..(num \div den + 1) :
             (2 * x - 1) * den <= 2 * num /\ 2 * num < (2 * x + 1) * den
  IN  IF r > 100 THEN 100 ELSE r

\* C15: a product whose records' cached daily velocities sum to more than 0
\* is reported 'down' with percentChange = min(round(weeklySales /
\* currentStock * 100), 100) (the cap when currentStock is 0); one whose sum
\* is 0, or that has no records, is 'stable' with 0; 'up' is never reported.
C15_ProductTrends ==
  report.getInventoryAnalytics.success =>
    /\ Len(report.getInventoryAnalytics.productTrends) = Len(products)
    /\ \A i \in 1..Len(products) :
         LET trend == report.getInventoryAnalytics.productTrends[i]
             daily == VelocitySum(RecordsOf(products[i]))
             stock == TotalStock(products[i])
         IN  /\ trend.productId = products[i].shopifyId
             /\ trend.trendDirection \in {"down", "stable"}
             /\ daily.n > 0 =>
                  /\ trend.trendDirection = "down"
                  /\ trend.percentChange =
                       IF stock = 0 THEN 100 ELSE ExpectedPercent(daily, stock)
             /\ daily.n = 0 =>
                  /\ trend.trendDirection = "stable"
                  /\ trend.percentChange = 0

\* A product with two selling variants (2 + 2.5 a day, stock 40: 79%), and one
\* without records.
C15_Witness ==
  /\ report.getInventoryAnalytics.success
  /\ Len(products) = 2
  /\ Cardinality(RecordsOf(products[1])) = 2
  /\ VelocitySum(RecordsOf(products[1])) = Fraction(9, 2)
  /\ TotalStock(products[1]) = 40
  /\ report.getInventoryAnalytics.productTrends[1].trendDirection = "down"
  /\ report.getInventoryAnalytics.productTrends[1].percentChange = 79
  /\ RecordsOf(products[2]) = {}
  /\ report.getInventoryAnalytics.productTrends[2].trendDirection = "stable"

LowStockRecords == {k \in 1..Len(analytics) : analytics[k].stockStatus = "Low Stock"}

\* C16: the low-stock count of the dashboard aggregates is the number of
\* records whose stockStatus is the 'Low Stock' value the sync writes, and so
\* is not 0 when a synced variant has 0 < quantity <= 5.
C16_LowStockCount ==
  /\ report.getInventoryAnalytics.success =>
       report.getInventoryAnalytics.lowStockItems = Cardinality(LowStockRecords)
  /\ report.getDashboardData.success =>
       report.getDashboardData.lowStockCount = Cardinality(LowStockRecords)

(***************************************************************************)
(* Properties of the upserts.                                              *)
(***************************************************************************)
\* The calls that have just upserted the product of their record i.
JustUpserted ==
  {p \in Procs : sync[p].kind = "products" /\ sync[p].pc \in {"analytics", "insert"}}

\* C17: a product upsert is a full replace keyed on the external id: the
\* stored Product has the fields of the normalized record, each with the
\* record's value, and beside its _id no other field with a value: a vendor
\* the previous version had and the new platform record lacks is gone, and
\* the variants are the new list.
C17_UpsertReplaces ==
  \A p \in JustUpserted :
    LET stored == sync[p].savedProduct
        record == NormalizeProduct(sync[p].all[sync[p].i], stored.lastUpdated)
    IN  /\ DOMAIN record \subseteq DOMAIN stored
        /\ \A f \in DOMAIN record : stored[f] = record[f]
        /\ \A f \in DOMAIN stored \ (DOMAIN record \cup {"_id"}) : stored[f] = "null"

\* C18: there is at most one Product per external product id and at most one
\* Order per external order id, whatever calls have run; a re-synced order
\* overwrites its document.
C18_OneDocumentPerExternalId ==
  /\ \A j, k \in 1..Len(products) : products[j].shopifyId = products[k].shopifyId => j = k
  /\ \A j, k \in 1..Len(orders) : orders[j].shopifyId = orders[k].shopifyId => j = k
  /\ Len(products) <= Len(platform.products)
  /\ Len(orders) <= Len(platform.orders)

\* A second order sync has returned on a repository that held every order.
C18_Witness ==
  /\ \E p \in Procs :
       /\ sync[p].pc = "done" /\ sync[p].kind = "orders"
       /\ Len(sync[p].before.orders) = Len(platform.orders)
  /\ Len(orders) = Len(platform.orders)
  /\ Len(orders) > 1

(***************************************************************************)
(* Properties of the requests to the prediction service.                   *)
(***************************************************************************)
\* C19: every request to the prediction service made for restock
\* recommendations or simulations is bounded by a timeout: once sent it
\* eventually ends, even if the service never answers.
C19_RequestsEnd ==
  \A site \in {"getRestockRecommendations", "runInventorySimulations"} :
    (request[site] = "pending") ~> (request[site] # "pending")

(***************************************************************************)
(* Properties of syncAllData.                                              *)
(***************************************************************************)
\* The analytics collection after the upserts for variants v.. of a saved product.
RECURSIVE AnalyticsAfterVariants(_, _, _)
AnalyticsAfterVariants(anas, product, v) ==
  IF v > Len(product.variants) THEN anas
  ELSE LET variant == product.variants[v]
           k == FirstMatch(anas, LAMBDA a : AnalyticsMatch(a, product, variant))
       IN  AnalyticsAfterVariants(
             IF k > 0 THEN [anas EXCEPT ![k] = PushAndSet(@, variant, now)]
             ELSE Append(anas, NewAnalytics(product, variant, now)),
             product, v + 1)

\* The repository a product sync running alone leaves, records i.. still to do.
RECURSIVE AloneProducts(_, _, _, _)
AloneProducts(prods, anas, records, i) ==
  IF i > Len(records) THEN [products |-> prods, analytics |-> anas]
  ELSE LET product == NormalizeProduct(records[i], now)
           coll == UpsertByShopifyId(prods, product)
       IN  AloneProducts(coll,
                         AnalyticsAfterVariants(anas, SavedDoc(coll, product.shopifyId), 1),
                         records, i + 1)

\* The Order collection an order sync running alone leaves.
RECURSIVE AloneOrders(_, _, _)
AloneOrders(ords, records, i) ==
  IF i > Len(records) THEN ords
  ELSE AloneOrders(UpsertByShopifyId(ords, NormalizeOrder(records[i], now)), records, i + 1)

\* C20: a product sync and an order sync started together touch no common
\* record: a step of one leaves the other's collections alone and, whatever
\* the interleaving, a sync that returns leaves its collections as it would
\* running alone, before or after the other.
C20_SyncsCommute ==
  /\ [](sync[1].kind = "products" /\ sync[1].pc = "done" =>
          LET alone == AloneProducts(sync[1].before.products, sync[1].before.analytics,
                                     platform.products, 1)
          IN  products = alone.products /\ analytics = alone.analytics)
  /\ [](sync[2].kind = "orders" /\ sync[2].pc = "done" =>
          orders = AloneOrders(sync[2].before.orders, platform.orders, 1))
  /\ [][/\ (sync'[1] # sync[1] /\ sync'[2] = sync[2]) => orders' = orders
        /\ (sync'[2] # sync[2] /\ sync'[1] = sync[1]) =>
             products' = products /\ analytics' = analytics]_vars

\* Both syncs in flight, each having written.
C20_Witness ==
  /\ sync[1].kind = "products" /\ sync[1].pc \in {"save", "analytics", "insert"}
  /\ sync[2].kind = "orders" /\ sync[2].pc = "save"
  /\ Len(products) > Len(sync[1].before.products)
  /\ Len(orders) > Len(sync[2].before.orders)

(***************************************************************************)
(* Properties of the aggregation reads on orphaned analytics.              *)
(***************************************************************************)
\* An analytics document whose product or variant is not in the Product collection.
Orphan(item) ==
  ~\E i \in 1..Len(products) :
      /\ products[i].shopifyId = item.shopifyProductId
      /\ \E v \in 1..Len(products[i].variants) :
           products[i].variants[v].shopifyVariantId = item.variantId

Joined == SelectSeq(analytics, LAMBDA item : ~Orphan(item))

\* C21: an analytics record whose product or variant no longer exists adds to
\* no low-stock, out-of-stock or predicted-out-of-stock count and to no
\* restock list: every read answers as it would without the orphans.
C21_OrphansExcluded ==
  /\ getDashboardData(products, analytics, FALSE).lowStockCount
       = getDashboardData(products, Joined, FALSE).lowStockCount
  /\ getDashboardData(products, analytics, FALSE).outOfStockCount
       = getDashboardData(products, Joined, FALSE).outOfStockCount
  /\ getInventoryAnalytics(products, analytics, FALSE).lowStockItems
       = getInventoryAnalytics(products, Joined, FALSE).lowStockItems
  /\ getInventoryAnalytics(products, analytics, FALSE).predictedOutOfStock
       = getInventoryAnalytics(products, Joined, FALSE).predictedOutOfStock
  /\ RestockItems(products, analytics, FALSE) = RestockItems(products, Joined, FALSE)

(***************************************************************************)
(* Properties of the stored observations.                                  *)
(***************************************************************************)
IsPrefix(s, t) == Len(s) <= Len(t) /\ SubSeq(t, 1, Len(s)) = s

\* C22: historicalQuantities is append-only: every step of a sync, of the
\* velocity recomputation and of the recommendation write-back, however
\* interleaved, leaves each stored list a prefix of the list after the step
\* (the write-back is applied to every state with each prediction).
C22_AppendOnly ==
  /\ [][/\ Len(analytics) <= Len(analytics')
        /\ \A k \in 1..Len(analytics) :
             /\ analytics'[k].variantId = analytics[k].variantId
             /\ IsPrefix(analytics[k].historicalQuantities,
                         analytics'[k].historicalQuantities)]_vars
  /\ [](\A prediction \in Predictions(VariantIds \cup {"0"}) :
          \E after \in {savePredictions(analytics, <<prediction>>, 1, now)} :
            /\ Len(after) = Len(analytics)
            /\ \A k \in 1..Len(analytics) :
                 after[k].historicalQuantities = analytics[k].historicalQuantities)

\* The velocity recomputation has saved a document that a sync appended to
\* after the recomputation had read it.
C22_Witness ==
  LET u == service.update
  IN  /\ u.pc = "saving" /\ u.i > 1
      /\ Len(analytics[1].historicalQuantities) > Len(u.items[1].historicalQuantities)
      /\ "salesVelocity" \in DOMAIN analytics[1]

(***************************************************************************)
(* Properties of the page requests of one call.                            *)
(***************************************************************************)
\* C23: the page requests of a call are sequential and cursor-driven: the
\* first carries no cursor; a further request follows only full pages and
\* carries the id of the last record fetched; a short page ends the requests;
\* nothing is upserted while a request is still to come.
C23_CursorPaging ==
  /\ [](\A p \in Procs :
          LET s == sync[p]
          IN  s.pc = "fetch" =>
                /\ s.requests = 0 => "since_id" \notin DOMAIN s.params
                /\ s.requests > 0 =>
                     /\ Len(s.all) = s.requests * PageSize
                     /\ "since_id" \in DOMAIN s.params
                     /\ s.params.since_id = s.all[Len(s.all)].id
                /\ s.saved = 0
                /\ products = s.before.products
                /\ orders = s.before.orders
                /\ analytics = s.before.analytics)
  /\ [][\A p \in Procs :
          LET s == sync[p]
              t == sync'[p]
          IN  /\ (s.pc = "fetch" /\ t.pc = "fetch") =>
                   /\ t.requests = s.requests + 1
                   /\ Len(t.all) = Len(s.all) + PageSize
              /\ (s.pc = "fetch" /\ t.pc # "fetch" /\ t.pc # "failed") =>
                   /\ t.requests = s.requests + 1
                   /\ Len(t.all) < Len(s.all) + PageSize
              /\ s.pc \in {"save", "analytics", "insert"} =>
                   /\ t.pc # "fetch"
                   /\ t.requests = s.requests
                   /\ t.all = s.all]_vars

\* A further request is about to be made after MaxPages full pages.
C23_Witness ==
  /\ sync[1].pc = "fetch"
  /\ sync[1].requests = MaxPages
  /\ Len(sync[1].all) = MaxPages * PageSize

(***************************************************************************)
(* Properties of a sync pass over enriched analytics.                      *)
(***************************************************************************)
\* A synced repository whose analytics documents were since left alone, given
\* a velocity by the analytics service, or written to by _savePredictions.
Enrichments == {"none", "velocity", "predicted"}
Enriched(a, how) ==
  IF how = "velocity" THEN SetFields(a, [salesVelocity |-> CachedVelocity])
  ELSE IF how = "predicted"
  THEN savePredictions(<<a>>,
         <<[productId |-> a.variantId, recommendedOrderQuantity |-> 10, avgDailySales |-> 2]>>,
         1, 0)[1]
  ELSE a

InitFrame ==
  /\ now = 0
  /\ orders = <<>>
  /\ \E n \in 1..MaxProducts : \E offset \in 0..(Len(QuantityCycle) - 1) :
       /\ platform = [products |-> SmallProducts(n, offset, FALSE),
                      orders |-> SmallOrders(n, FALSE)]
       /\ \E synced \in {AloneProducts(<<>>, <<>>, platform.products, 1)} :
            /\ products = synced.products
            /\ \E how \in [1..Len(synced.analytics) -> Enrichments] :
                 analytics = [k \in 1..Len(synced.analytics) |->
                                Enriched(synced.analytics[k], how[k])]
  /\ runs = 0
  /\ sync = [p \in Procs |-> Idle]
  /\ bridge = NoCalls
  /\ saved = NothingSaved
  /\ report = NoReports
  /\ request = NoRequests
  /\ service = NoService
NextFrame == SyncStep(1) /\ sync'[1].kind = "products"
SpecFrame == InitFrame /\ [][NextFrame]_vars

SyncWrites == {"historicalQuantities", "stockStatus", "lastUpdated"}

\* C24: a sync pass writes no recommendation: on an analytics record that
\* exists it changes only historicalQuantities, stockStatus and lastUpdated;
\* restockRecommendations, salesVelocity, lowStockThreshold, productId, title
\* and sku stay as they were.
C24_SyncFrame ==
  [][\A k \in 1..Len(analytics) :
       /\ k <= Len(analytics')
       /\ DOMAIN analytics'[k] = DOMAIN analytics[k]
       /\ \A f \in DOMAIN analytics[k] \ SyncWrites : analytics'[k][f] = analytics[k][f]]_vars

\* A sync has appended to a record that holds a recommendation and a velocity.
C24_Witness ==
  \E k \in 1..Len(analytics) :
    /\ "restockRecommendations" \in DOMAIN analytics[k]
    /\ "salesVelocity" \in DOMAIN analytics[k]
    /\ Len(analytics[k].historicalQuantities) > 1
    /\ sync[1].pc = "done"

(***************************************************************************)
(* Properties of the analytics service's updateInventoryAnalytics.         *)
(***************************************************************************)
Rates(v) == [daily |-> v.daily, weekly |-> v.weekly, monthly |-> v.monthly]

\* C25: when updateInventoryAnalytics completes without a failure and with no
\* other writer, every record's cached salesVelocity is the velocity computed
\* from its historicalQuantities, and the call returns success with updated
\* equal to the number of records.
C25_VelocityRecomputed ==
  service.update.pc = "done" =>
    /\ service.update.success
    /\ service.update.updated = Len(analytics)
    /\ \A k \in 1..Len(analytics) :
         /\ "salesVelocity" \in DOMAIN analytics[k]
         /\ Rates(analytics[k].salesVelocity)
              = Rates(calculateBasicSalesVelocity(analytics[k], now))

\* A completed call on two records, one selling, one with a stale cached velocity.
C25_Witness ==
  /\ service.update.pc = "done"
  /\ Len(analytics) = 2
  /\ analytics[2].salesVelocity.daily.n > 0
  /\ "salesVelocity" \in DOMAIN service.update.items[1]
  /\ service.update.items[1].salesVelocity = CachedVelocity
  /\ analytics[1].salesVelocity.daily.n = 0

(***************************************************************************)
(* Properties of saveAIRecommendations.                                    *)
(***************************************************************************)
\* The complete recommendations of the last call that name record a.
Recommending(a) ==
  {j \in 1..Len(service.save.recommendations) :
     LET rec == service.save.recommendations[j]
     IN  /\ Complete(rec)
         /\ rec.productId = a.shopifyProductId
         /\ rec.variantId = a.variantId}

Recommended == {k \in 1..Len(service.save.before) : Recommending(service.save.before[k]) # {}}

\* C26: saveAIRecommendations processes its whole list: every record matched
\* by a recommendation holds it afterwards, and the call returns success with
\* updated equal to the number of records it stored a recommendation on.
C26_RecommendationsSaved ==
  service.save.called =>
    /\ service.save.success
    /\ service.save.updated = Cardinality(Recommended)
    /\ \A k \in Recommended :
         /\ "restockRecommendations" \in DOMAIN analytics[k]
         /\ analytics[k].restockRecommendations.recommendedQuantity = 10

(***************************************************************************)
(* Properties of the stored status.                                        *)
(***************************************************************************)
\* C27: in every state, in the middle of a pass and under interleaved
\* passes too, a record's stockStatus is the classification (<= 0 Out of
\* Stock, <= 5 Low Stock, else In Stock) of the quantity of the last entry
\* of its historicalQuantities.
C27_StatusOfLastObservation ==
  \A k \in 1..Len(analytics) :
    LET h == analytics[k].historicalQuantities
        q == h[Len(h)].quantity
    IN  /\ Len(h) > 0
        /\ analytics[k].stockStatus =
             (IF q <= 0 THEN "Out of Stock" ELSE IF q <= 5 THEN "Low Stock" ELSE "In Stock")

\* Two passes in flight, and a record whose status has changed with its stock.
C27_Witness ==
  /\ \A p \in Procs : sync[p].kind = "products" /\ sync[p].pc \in {"save", "analytics", "insert"}
  /\ \E k \in 1..Len(analytics) :
       LET h == analytics[k].historicalQuantities
       IN  /\ Len(h) > 1
           /\ h[1].quantity <= 0
           /\ h[Len(h)].quantity > 5
           /\ analytics[k].stockStatus = "In Stock"

(***************************************************************************)
(* Properties of a product sync whose upsert fails.                        *)
(***************************************************************************)
\* The <<record, variant>> pairs of the listing of slot 1.
ListedVariants ==
  {c \in (1..Len(sync[1].all)) \X (1..2) : c[2] <= Len(sync[1].all[c[1]].variants)}

ObservationsOf(coll, c) ==
  HistoryLength(coll, ToString(sync[1].all[c[1]].id),
                ToString(sync[1].all[c[1]].variants[c[2]].id))

ProductsOf(coll, n) ==
  {WithoutTimestamps(coll[k]) : k \in {j \in 1..Len(coll) :
                                        coll[j].shopifyId = ToString(sync[1].all[n].id)}}

\* C28: when the Product upsert of record k fails, the call ends in error
\* with nothing rolled back: records 1..k-1 keep their Product and one new
\* observation per variant, record k and the records after it are untouched;
\* a successful retry then leaves the variants of records 1..k-1 with two new
\* observations and every other variant with one.
C28_NoRollback ==
  LET s == sync[1]
      k == Len(s.before.products) + 1
  IN  /\ (s.kind = "products" /\ s.pc = "failed" /\ s.error = "storage" /\ s.v = 0) =>
           /\ \A c \in ListedVariants :
                ObservationsOf(analytics, c)
                  = ObservationsOf(s.before.analytics, c) + (IF c[1] < s.i THEN 1 ELSE 0)
           /\ \A n \in 1..Len(s.all) :
                IF n < s.i THEN ProductsOf(products, n) # {}
                ELSE ProductsOf(products, n) = ProductsOf(s.before.products, n)
      /\ (/\ s.kind = "products" /\ s.pc = "done"
          /\ s.lastKind = "products" /\ s.last = "failed" /\ runs = 2
          /\ \A c \in ListedVariants : c[1] < k => ObservationsOf(s.before.analytics, c) = 1) =>
           \A c \in ListedVariants :
             ObservationsOf(analytics, c) = (IF c[1] < k THEN 2 ELSE 1)

\* A retry has returned after a call whose second Product upsert failed.
C28_Witness ==
  /\ sync[1].kind = "products" /\ sync[1].pc = "done"
  /\ sync[1].lastKind = "products" /\ sync[1].last = "failed" /\ runs = 2
  /\ Len(sync[1].all) > 1
  /\ Len(sync[1].before.products) = 1
  /\ Len(sync[1].before.analytics) = 2
  /\ \A k \in 1..Len(sync[1].before.analytics) :
       Len(sync[1].before.analytics[k].historicalQuantities) = 1

(***************************************************************************)
(* Properties of the velocity under reordering.                            *)
(***************************************************************************)
Reorderings(h) ==
  {[k \in 1..Len(h) |-> h[f[k]]] : f \in Permutations(1..Len(h))}

Reordered(a, h) == [a EXCEPT !.historicalQuantities = h]

\* C29: calculateBasicSalesVelocity gives the same daily, weekly and monthly
\* values for every storage order of the same observations, equal timestamps
\* included.
C29_OrderIndependent ==
  \A k \in 1..Len(analytics) :
    \A h \in Reorderings(analytics[k].historicalQuantities) :
      Rates(calculateBasicSalesVelocity(Reordered(analytics[k], h), now))
        = Rates(calculateBasicSalesVelocity(analytics[k], now))

(***************************************************************************)
(* Properties of the reported trend.                                       *)
(***************************************************************************)
\* The aggregation read on synced repositories with enriched records.
NextTrend == GetInventoryAnalytics
SpecTrend == InitFrame /\ [][NextTrend]_vars

\* C30: for every product, those whose total stock is 0 or negative included,
\* the percentChange reported by getInventoryAnalytics is an integer from 0
\* to 100.
C30_PercentInRange ==
  report.getInventoryAnalytics.success =>
    \A i \in 1..Len(report.getInventoryAnalytics.productTrends) :
      report.getInventoryAnalytics.productTrends[i].percentChange \in 0..PercentCap

====
